---- MODULE Spec2Model ----
(***************************************************************************)
(* Model of the threat-actor profile generation pipeline                   *)
(* (server/src/services/geminiService.ts and the services it calls).       *)
(*                                                                         *)
(* Strings are modelled by the structure the code inspects:                *)
(*   - a name is a record [toks, caps, sep, qual]: the alphanumeric tokens *)
(*     of the string (lower-cased), whether it has upper-case letters,     *)
(*     whether it has non-alphanumeric separators, and a parenthetical     *)
(*     qualifier ("" when none);                                           *)
(*   - a URL is a record [kind, id, slashes]: the pattern class of the     *)
(*     URL, its identity and its number of trailing slashes;               *)
(*   - a CVE identifier is a record [prefix, yearDigits, seqDigits, num].  *)
(***************************************************************************)
EXTENDS Integers, Sequences, FiniteSets, TLC

(***************************************************************************)
(* Sequence helpers (JavaScript array operations)                          *)
(***************************************************************************)
Range(s) == {s[i] : i \in 1..Len(s)}

RECURSIVE FilterSeq(_, _)
\* Array.prototype.filter with the kept values given as a set
FilterSeq(s, keep) ==
  IF s = <<>> THEN <<>>
  ELSE (IF Head(s) \in keep THEN <<Head(s)>> ELSE <<>>) \o FilterSeq(Tail(s), keep)

RECURSIVE Dedup(_, _)
\* Array.from(new Set(s)): first occurrences, in insertion order
Dedup(s, seen) ==
  IF s = <<>> THEN <<>>
  ELSE IF Head(s) \in seen THEN Dedup(Tail(s), seen)
       ELSE <<Head(s)>> \o Dedup(Tail(s), seen \cup {Head(s)})

RECURSIVE IsInfix(_, _)
\* String.prototype.includes on token sequences: a contains b
IsInfix(a, b) ==
  IF Len(b) > Len(a) THEN FALSE
  ELSE IF SubSeq(a, 1, Len(b)) = b THEN TRUE
  ELSE IF a = <<>> THEN FALSE
  ELSE IsInfix(Tail(a), b)

(***************************************************************************)
(* Names                                                                   *)
(***************************************************************************)
Nm(toks, caps, sep, qual) == [toks |-> toks, caps |-> caps, sep |-> sep, qual |-> qual]

\* String.prototype.toLowerCase
ToLowerCase(n) == [n EXCEPT !.caps = FALSE]

\* a.trim().length > 0
NonBlank(n) == n.toks # <<>> \/ n.qual # ""

\* mitreService.normalize: lower-case, strip every non-alphanumeric character
\* (the letters of a qualifier stay, its parentheses and the space go)
normalize(n) == n.toks \o (IF n.qual = "" THEN <<>> ELSE <<n.qual>>)

\* alias.includes('(overlap)') || alias.includes('(related)') || alias.includes('(possible)')
HasRelationshipQualifier(n) == n.qual \in {"overlap", "related", "possible"}

(***************************************************************************)
(* Reference Cache (mitreService.ts)                                       *)
(*                                                                         *)
(* An intrusion set is [name, aliases, url, firstSeen]; url and firstSeen  *)
(* are NoUrl / "" when absent.  A bundle is [intrusions, malware]: the     *)
(* non-revoked intrusion sets in catalog order and the names of the        *)
(* non-revoked malware and tool objects.                                   *)
(***************************************************************************)
NoUrl == [kind |-> "none", id |-> <<>>, slashes |-> 0]

Intrusion(name, aliases, url, firstSeen) ==
  [name |-> name, aliases |-> aliases, url |-> url, firstSeen |-> firstSeen]

\* 24 * 60 * 60 * 1000
CACHE_TTL == 86400000

\* a bundle of the catalog and the outcome of a fetch that is not issued or fails
EmptyBundle == [intrusions |-> <<>>, malware |-> {}]

\* an outcome is [ok, partial, bundle]: ok when the whole try block ran; partial
\* when the payload gave the intrusion sets and the loop over the malware and
\* tool objects threw (an object without a name, aliases that cannot be
\* iterated), bundle.malware being the names added before the throw
NoFetch == [ok |-> FALSE, partial |-> FALSE, bundle |-> EmptyBundle]

\* the module-level cache before the first fetch
EmptyCache == [loaded |-> FALSE, intrusions |-> <<>>, malware |-> {}, ts |-> 0]

\* a cache test that always goes to the network
NeedsFetchAlways(cache, clock) == TRUE

\* whether a call of fetchMitreData goes to the network
NeedsFetch(cache, clock) == ~(cache.loaded /\ clock - cache.ts < CACHE_TTL)

\* the try block and the catch of fetchMitreData once the fetch has ended: the
\* module-level cache they leave.  cachedIntrusions and cachedMalwareNames are
\* assigned as the payload is read, cacheTimestamp at the end of the try block.
Refresh(cache, clock, outcome) ==
  IF outcome.ok
  THEN [loaded |-> TRUE,
        intrusions |-> outcome.bundle.intrusions,
        malware |-> {normalize(m) : m \in outcome.bundle.malware},
        ts |-> clock]
  ELSE IF outcome.partial
  THEN [loaded |-> TRUE,
        intrusions |-> outcome.bundle.intrusions,
        malware |-> {normalize(m) : m \in outcome.bundle.malware},
        ts |-> cache.ts]
  ELSE cache

\* fetchMitreData: the cache after the call.  outcome is the result of the
\* outbound fetch; it is consulted only when the cache is empty or expired.
FetchMitreData(cache, clock, outcome) ==
  IF NeedsFetch(cache, clock) THEN Refresh(cache, clock, outcome) ELSE cache

\* what fetchMitreData returns: the cached list, [] when nothing was ever cached
Intrusions(cache) == IF cache.loaded THEN cache.intrusions ELSE <<>>

\* KNOWN_MALWARE_FAMILIES, normalized
KNOWN_MALWARE_FAMILIES ==
  {<<"warlock">>, <<"catb">>, <<"horus">>, <<"bestcrypt">>, <<"cobaltstrike">>,
   <<"beacon">>, <<"mimikatz">>, <<"bloodhound">>, <<"rubeus">>}

\* isMitreMalwareOrTool, on the cache left by its own fetchMitreData call
IsMitreMalwareOrTool(cache, name) ==
  (cache.loaded /\ normalize(name) \in cache.malware)
    \/ normalize(name) \in KNOWN_MALWARE_FAMILIES

\* the fuzzy match of findMitreActor on one intrusion set
MatchesIntrusion(intrusion, actorName) ==
  \E n \in {intrusion.name} \cup Range(intrusion.aliases) :
     \/ normalize(n) = normalize(actorName)
     \/ IsInfix(normalize(n), normalize(actorName))
     \/ IsInfix(normalize(actorName), normalize(n))

\* the intrusion sets that match, in catalog order (findMitreActor returns the first)
FindMitreActor(intrusions, actorName) ==
  FilterSeq(intrusions, {i \in Range(intrusions) : MatchesIntrusion(i, actorName)})

NoMitreInfo == [found |-> FALSE, aliases |-> <<>>, mitreUrl |-> NoUrl, firstSeen |-> ""]

\* getMitreActorInfo: null, or {aliases, mitreUrl, firstSeen} of the first match
GetMitreActorInfo(intrusions, actorName) ==
  LET hits == FindMitreActor(intrusions, actorName)
  IN IF hits = <<>> THEN NoMitreInfo
     ELSE [found |-> TRUE, aliases |-> hits[1].aliases,
           mitreUrl |-> hits[1].url, firstSeen |-> hits[1].firstSeen]

RECURSIVE AliasMapOwner(_, _)
\* getAllMitreAliasMap().get(key): the owner recorded for a normalized name, as a
\* one-element sequence, <<>> when the map has no such key.  map.set overwrites,
\* so the last intrusion set that carries the name wins.
AliasMapOwner(intrusions, key) ==
  IF intrusions = <<>> THEN <<>>
  ELSE LET last == intrusions[Len(intrusions)]
           names == {last.name} \cup Range(last.aliases)
       IN IF \E n \in names : normalize(n) = key
          THEN <<last.name>>
          ELSE AliasMapOwner(SubSeq(intrusions, 1, Len(intrusions) - 1), key)

(***************************************************************************)
(* Alias Reconciler (aliasValidationService.ts) and mergeAliases           *)
(***************************************************************************)
NoOwner == Nm(<<>>, FALSE, FALSE, "")

Rejection(alias, reason, belongsTo) ==
  [alias |-> alias, reason |-> reason, belongsTo |-> belongsTo]

\* the verdict of the loop body of validateAliases on one alias: mapIntrusions is
\* the list the alias map was built from, cache the cache after the
\* fetchMitreData call of isMitreMalwareOrTool
AliasVerdict(alias, ownNames, mapIntrusions, cache) ==
  LET owner == AliasMapOwner(mapIntrusions, normalize(alias))
  IN IF HasRelationshipQualifier(alias) THEN Rejection(alias, "qualifier", NoOwner)
     ELSE IF IsMitreMalwareOrTool(cache, alias) THEN Rejection(alias, "tool", NoOwner)
     ELSE IF owner # <<>> /\ normalize(owner[1]) \notin ownNames
          THEN Rejection(alias, "owner", owner[1])
          ELSE Rejection(alias, "valid", NoOwner)

RECURSIVE ValidateLoop(_, _, _, _, _, _, _)
\* the for loop of validateAliases from alias i on; outs[i + 1] is the outcome of
\* the fetch that isMitreMalwareOrTool(aiAliases[i]) issues when the cache is
\* empty or expired.  The result is [verdicts, cache].
ValidateLoop(aiAliases, i, ownNames, mapIntrusions, cache, clock, outs) ==
  IF i > Len(aiAliases) THEN [verdicts |-> <<>>, cache |-> cache]
  ELSE LET alias == aiAliases[i]
           c1 == IF HasRelationshipQualifier(alias) THEN cache
                 ELSE FetchMitreData(cache, clock, outs[i + 1])
           rest == ValidateLoop(aiAliases, i + 1, ownNames, mapIntrusions, c1, clock, outs)
       IN [verdicts |-> <<AliasVerdict(alias, ownNames, mapIntrusions, c1)>> \o rest.verdicts,
           cache |-> rest.cache]

\* validateAliases(actorName, aiAliases, mitreAliases): outs[1] is the outcome of
\* the fetch of getAllMitreAliasMap.  The result is
\* [aliasMap, validAliases, rejectedAliases, cache].
ValidateAliases(actorName, aiAliases, mitreAliases, cache, clock, outs) ==
  LET c0 == FetchMitreData(cache, clock, outs[1])
      ownNames == {normalize(actorName)} \cup {normalize(a) : a \in Range(mitreAliases)}
      run == ValidateLoop(aiAliases, 1, ownNames, Intrusions(c0), c0, clock, outs)
      ok == {i \in 1..Len(aiAliases) : run.verdicts[i].reason = "valid"}
      Pick(keep) == [j \in 1..Cardinality(keep) |->
                       CHOOSE i \in keep : Cardinality({k \in keep : k < i}) = j - 1]
  IN [aliasMap |-> Intrusions(c0),
      validAliases |-> [j \in 1..Cardinality(ok) |-> aiAliases[Pick(ok)[j]]],
      rejectedAliases |->
        LET bad == (1..Len(aiAliases)) \ ok
        IN [j \in 1..Cardinality(bad) |-> run.verdicts[Pick(bad)[j]]],
      cache |-> run.cache]

\* mergeAliases(aiAliases, trustedAliases, mitreAliases, primaryName)
MergeAliases(aiAliases, trustedAliases, mitreAliases, primaryName) ==
  LET all == Dedup(aiAliases \o trustedAliases \o mitreAliases, {})
  IN FilterSeq(all, {a \in Range(all) :
                       ToLowerCase(a) # ToLowerCase(primaryName) /\ NonBlank(a)})

(***************************************************************************)
(* Source Validator (urlValidation.ts) and assembleVerifiedSources         *)
(*                                                                         *)
(* A source entry is modelled by its URL (the title takes part in no       *)
(* decision).  kind is the pattern class of the URL: "ephemeral" matches   *)
(* EPHEMERAL_URL_PATTERNS, "stable" and "gquery" match                     *)
(* STABLE_URL_PATTERNS, "gquery" and "gsearch" contain 'google.com/search',*)
(* "plain" matches nothing.  NullSource is a null element of a sources     *)
(* array parsed from model text: reading its .url raises a TypeError.      *)
(***************************************************************************)
Url(kind, id, slashes) == [kind |-> kind, id |-> id, slashes |-> slashes]

NullSource == [kind |-> "null", id |-> <<>>, slashes |-> 0]

\* url.replace(/\/$/, ''): one trailing slash stripped
StripSlash(u) == [u EXCEPT !.slashes = IF @ > 0 THEN @ - 1 ELSE 0]

isEphemeralUrl(u) == u.kind = "ephemeral"

isKnownStableUrl(u) == u.kind \in {"stable", "gquery"}

\* url.includes('google.com/search')
isGoogleSearch(u) == u.kind \in {"gquery", "gsearch"}

RECURSIVE AddSources(_, _)
\* addSource over the candidates in order: the entries kept, first occurrence
\* of each slash-stripped URL
AddSources(cands, seenUrls) ==
  IF cands = <<>> THEN <<>>
  ELSE IF StripSlash(Head(cands)) \in seenUrls THEN AddSources(Tail(cands), seenUrls)
       ELSE <<Head(cands)>> \o AddSources(Tail(cands), seenUrls \cup {StripSlash(Head(cands))})

\* the loop over aiSources reads src.url of every element
AssembleThrows(aiSources) == NullSource \in Range(aiSources)

\* assembleVerifiedSources(groundedUrls, aiSources, trustedSources, mitreUrl, actorName)
AssembleVerifiedSources(groundedUrls, aiSources, trustedSources, mitreUrl) ==
  LET cands == trustedSources
                 \o (IF mitreUrl # NoUrl THEN <<mitreUrl>> ELSE <<>>)
                 \o FilterSeq(groundedUrls, {u \in Range(groundedUrls) : ~isEphemeralUrl(u)})
                 \o FilterSeq(aiSources, {u \in Range(aiSources) :
                                            isKnownStableUrl(u) /\ ~isEphemeralUrl(u)})
      kept == AddSources(cands, {})
      result == FilterSeq(kept, {u \in Range(kept) : ~isGoogleSearch(u)})
      googleFallbacks == FilterSeq(kept, {u \in Range(kept) : isGoogleSearch(u)})
  IN IF Len(result) < 3 THEN result \o googleFallbacks ELSE result

\* the outcome of the probes of one URL: head and get are "ok" (status < 400),
\* "bad" (status >= 400) or "fail" (network error, timeout, abort); get is
\* "none" when the HEAD request returned a status
ProbeOutcomes ==
  {[head |-> "ok", get |-> "none"], [head |-> "bad", get |-> "none"],
   [head |-> "fail", get |-> "ok"], [head |-> "fail", get |-> "bad"],
   [head |-> "fail", get |-> "fail"]}

NoProbe == [head |-> "none", get |-> "none"]

\* whether validateUrls probes the URL over the network
NeedsProbe(u) == ~isKnownStableUrl(u) /\ ~isGoogleSearch(u)

\* the value of `valid` without the GET fallback
UrlValidHeadOnly(u, probe) ==
  IF isKnownStableUrl(u) THEN TRUE
  ELSE IF isGoogleSearch(u) THEN TRUE
  ELSE probe.head = "ok"

\* the value of `valid` for one entry of the filtered list
UrlValid(u, probe) ==
  IF isKnownStableUrl(u) THEN TRUE
  ELSE IF isGoogleSearch(u) THEN TRUE
  ELSE IF probe.head # "fail" THEN probe.head = "ok"
  ELSE probe.get = "ok"

\* sources.filter(...) reads source.url of every element
ValidateUrlsThrows(sources) == NullSource \in Range(sources)

\* the ephemeral pre-filter of validateUrls
PreFilter(sources) == FilterSeq(sources, {u \in Range(sources) : ~isEphemeralUrl(u)})

RECURSIVE ProbeRuns(_)
\* the probe outcomes the network can produce for a filtered list, one per entry
ProbeRuns(filtered) ==
  IF filtered = <<>> THEN {<<>>}
  ELSE {<<p>> \o rest :
          p \in (IF NeedsProbe(Head(filtered)) THEN ProbeOutcomes ELSE {NoProbe}),
          rest \in ProbeRuns(Tail(filtered))}

\* validateUrls with a result loop that starts at the second settled promise
ValidateUrlsSkipFirst(sources, probes) ==
  LET filtered == PreFilter(sources)
      ok == {i \in 2..Len(filtered) : UrlValid(filtered[i], probes[i])}
      Nth(j) == CHOOSE i \in ok : Cardinality({k \in ok : k < i}) = j - 1
  IN [j \in 1..Cardinality(ok) |-> filtered[Nth(j)]]

\* validateUrls(sources), given the probe outcome of every entry of the
\* filtered list
ValidateUrls(sources, probes) ==
  LET filtered == PreFilter(sources)
      ok == {i \in 1..Len(filtered) : UrlValid(filtered[i], probes[i])}
      Nth(j) == CHOOSE i \in ok : Cardinality({k \in ok : k < i}) = j - 1
  IN [j \in 1..Cardinality(ok) |-> filtered[Nth(j)]]

(***************************************************************************)
(* Vulnerability Reconciler (nvdService.ts)                                *)
(*                                                                         *)
(* A CVE identifier is [prefix, yearDigits, seqDigits, num]: the text      *)
(* before the first dash, the number of digits of the year and of the      *)
(* sequence part, and the identity of the record.                          *)
(***************************************************************************)
CveId(num) == [prefix |-> "CVE", yearDigits |-> 4, seqDigits |-> 5, num |-> num]

Cve(id, description, severity, verificationReference) ==
  [id |-> id, description |-> description, severity |-> severity,
   verificationReference |-> verificationReference]

\* /^CVE-\d{4}-\d{4,}$/.test(id)
MatchesCvePattern(id) == id.prefix = "CVE" /\ id.yearDigits = 4 /\ id.seqDigits >= 4

\* cves.slice(0, 10)
NVD_BATCH_LIMIT == 10

\* const MIN_REQUEST_INTERVAL = 6500
MIN_REQUEST_INTERVAL == 6500

\* rateLimitedFetch with no delay before the call
WaitTimeNone(clock, last) == 0

\* the delay rateLimitedFetch sleeps before its call: clock is Date.now() on
\* entry, last is lastRequestTime
WaitTime(clock, last) ==
  IF clock - last < MIN_REQUEST_INTERVAL THEN MIN_REQUEST_INTERVAL - (clock - last) ELSE 0

RECURSIVE BatchStarts(_, _, _)
\* the start times of k calls of rateLimitedFetch issued one after the other by
\* the loop of validateCveBatch, entered at clock, when every timer fires on
\* time and every call returns at once
BatchStarts(k, clock, last) ==
  IF k = 0 THEN <<>>
  ELSE LET start == clock + WaitTime(clock, last)
       IN <<start>> \o BatchStarts(k - 1, start, start)

\* `https://nvd.nist.gov/vuln/detail/${cve.id}`
NvdDetailRef == "nvd-detail"

\* the outcomes of one authority call: "http_error" (response.ok false),
\* "network_error" (fetch or response.json() throws: network error, abort after
\* 10 s, unusable body), "not_found" (totalResults = 0), "found" with the
\* baseSeverity of the first CVSS v3.1 metric ("" when the record has none)
NvdOutcomes ==
  {[kind |-> "http_error", severity |-> ""], [kind |-> "network_error", severity |-> ""],
   [kind |-> "not_found", severity |-> ""], [kind |-> "found", severity |-> ""],
   [kind |-> "found", severity |-> "CRITICAL"], [kind |-> "found", severity |-> "NONE"]}

NoCall == [kind |-> "none", severity |-> ""]

\* the loop body with the two fail-open branches dropping the entry
CheckedCveFailClosed(cve, outcome) ==
  IF ~MatchesCvePattern(cve.id) THEN <<>>
  ELSE IF outcome.kind \in {"http_error", "network_error", "not_found"} THEN <<>>
  ELSE <<[cve EXCEPT
            !.severity = IF outcome.severity # "" THEN outcome.severity ELSE @,
            !.verificationReference = IF @ # "" THEN @ ELSE NvdDetailRef]>>

\* the loop body of validateCveBatch for one of the first 10 entries:
\* <<entry>> when the entry is kept, <<>> when it is removed
CheckedCve(cve, outcome) ==
  IF ~MatchesCvePattern(cve.id) THEN <<>>
  ELSE IF outcome.kind \in {"http_error", "network_error"} THEN <<cve>>
  ELSE IF outcome.kind = "not_found" THEN <<>>
  ELSE <<[cve EXCEPT
            !.severity = IF outcome.severity # "" THEN outcome.severity ELSE @,
            !.verificationReference = IF @ # "" THEN @ ELSE NvdDetailRef]>>

RECURSIVE ValidatedFrom(_, _, _)
\* the validated list built from entry i on
ValidatedFrom(cves, outcomes, i) ==
  IF i > Len(cves) THEN <<>>
  ELSE (IF i <= NVD_BATCH_LIMIT THEN CheckedCve(cves[i], outcomes[i]) ELSE <<cves[i]>>)
         \o ValidatedFrom(cves, outcomes, i + 1)

\* validateCveBatch(cves, actorName).validated, given the outcome of the
\* authority call of every entry that is submitted
ValidateCveBatch(cves, outcomes) == ValidatedFrom(cves, outcomes, 1)

RECURSIVE RemovedFrom(_, _, _)
\* validateCveBatch(cves, actorName).removed from entry i on: the identifiers of
\* the entries rejected for their format or because the authority has no record
RemovedFrom(cves, outcomes, i) ==
  IF i > Len(cves) \/ i > NVD_BATCH_LIMIT THEN <<>>
  ELSE (IF ~MatchesCvePattern(cves[i].id) \/ outcomes[i].kind = "not_found"
        THEN <<cves[i].id>> ELSE <<>>)
         \o RemovedFrom(cves, outcomes, i + 1)

\* every well-formed entry submitted, wherever it stands
IsSubmittedAll(cves, i) == MatchesCvePattern(cves[i].id)

\* whether validateCveBatch calls the authority for entry i
IsSubmitted(cves, i) == i <= NVD_BATCH_LIMIT /\ MatchesCvePattern(cves[i].id)

RECURSIVE NvdRuns(_, _)
\* the outcomes the authority can produce for a candidate list, one per entry
NvdRuns(cves, i) ==
  IF i > Len(cves) THEN {<<>>}
  ELSE {<<o>> \o rest :
          o \in (IF IsSubmitted(cves, i) THEN NvdOutcomes ELSE {NoCall}),
          rest \in NvdRuns(cves, i + 1)}

(***************************************************************************)
(* Override Registry (TRUSTED_THREAT_DATA): a list of [key, entry] in key  *)
(* order.  An entry is [cves, hasAliases, aliases, forbiddenAliases,       *)
(* first_seen, hasSources, sources]; cves holds [id, verificationReference]*)
(* pairs, hasAliases / hasSources tell whether the optional property is    *)
(* present, first_seen is "" when absent.                                  *)
(***************************************************************************)
TrustedCve(id, ref) == [id |-> id, verificationReference |-> ref]

Override(cves, hasAliases, aliases, forbiddenAliases, first_seen, hasSources, sources) ==
  [present |-> TRUE, cves |-> cves, hasAliases |-> hasAliases, aliases |-> aliases,
   forbiddenAliases |-> forbiddenAliases, first_seen |-> first_seen,
   hasSources |-> hasSources, sources |-> sources]

\* trustedCsvData = null
NoOverride ==
  [present |-> FALSE, cves |-> <<>>, hasAliases |-> FALSE, aliases |-> <<>>,
   forbiddenAliases |-> <<>>, first_seen |-> "", hasSources |-> FALSE, sources |-> <<>>]

\* the key test of Object.keys(TRUSTED_THREAT_DATA).find(...)
KeyMatches(key, actorName) ==
  IsInfix(normalize(actorName), normalize(key)) \/ IsInfix(normalize(key), normalize(actorName))

\* trustedCsvData: the entry of the first matching key, NoOverride when none matches
LookupOverride(reg, actorName) ==
  LET hits == {i \in 1..Len(reg) : KeyMatches(reg[i].key, actorName)}
  IN IF hits = {} THEN NoOverride
     ELSE reg[CHOOSE i \in hits : \A j \in hits : i <= j].entry

(***************************************************************************)
(* State                                                                   *)
(***************************************************************************)
VARIABLES
  registry,         \* TRUSTED_THREAT_DATA
  mitreCache,       \* cachedIntrusions, cachedMalwareNames, cacheTimestamp
  now,              \* Date.now(), in ms
  lastRequestTime,  \* nvdService: time of the last authority call
  actors,           \* the threat_actors table: a list of [id, name, rev]
  pc,               \* where the request stands
  req,              \* name, trustedUrls, trustedFiles of the request
  trustedCsvData,   \* the override entry of the request
  mitreInfo,        \* result of the pre-generation lookup
  researchNotes,    \* "" or "notes"
  researchGroundedUrls,
  allGroundedUrls,
  attempt,          \* index of the structuring attempt in flight
  lastTruncatedText,\* whether lastTruncatedText is non-empty
  parsedData,       \* the structured record, NoData while null
  aliasMap,         \* the intrusion list validateAliases built its alias map from
  rejected,         \* rejectedAliases of the last validateAliases call
  log,              \* the GenerationLog
  calls,            \* the model and authority calls issued, in order
  ret,              \* what generateActorProfile returned or threw
  nvd,              \* callers: the requests inside validateCveBatch; starts: the
                    \* start times of the authority calls issued so far; run: the
                    \* last validateCveBatch of a generation
  mitre,            \* the calls of fetchMitreData in flight and the last one that ended
  urlRun,           \* the last validateUrls call that returned
  gen,              \* the generateActor requests past generateActorProfile
  repair,           \* the last tryRepairJson call: its text and its result
  refreshed         \* what the last refreshActorSection(name, 'ALIASES') returned

vars == <<registry, mitreCache, now, lastRequestTime, actors, pc, req, trustedCsvData,
          mitreInfo, researchNotes, researchGroundedUrls, allGroundedUrls, attempt,
          lastTruncatedText, parsedData, aliasMap, rejected, log, calls, ret, nvd,
          mitre, urlRun, gen, repair, refreshed>>

sideVars == <<mitre, urlRun, gen, repair, refreshed>>

procVars == <<registry, mitreCache, now, lastRequestTime, actors>>

NoData == [present |-> FALSE, name |-> NoOwner, first_seen |-> "", aliases |-> <<>>,
           cves |-> <<>>, sources |-> <<>>]

ParsedData(name, first_seen, aliases, cves, sources) ==
  [present |-> TRUE, name |-> name, first_seen |-> first_seen, aliases |-> aliases,
   cves |-> cves, sources |-> sources]

NoReq == [name |-> NoOwner, trustedUrls |-> <<>>, trustedFiles |-> <<>>]

EmptyLog == [steps |-> <<>>, groundingUrls |-> <<>>, approvedSources |-> <<>>,
             trustedFiles |-> <<>>]

NoRet == [kind |-> "none", profile |-> NoData, log |-> EmptyLog]

\* addStep keeping only the record of the latest stage
AddStepLatest(l, step) == [l EXCEPT !.steps = <<step>>]

\* addStep(step, ...)
AddStep(l, step) == [l EXCEPT !.steps = Append(@, step)]

(***************************************************************************)
(* generateActor (actorController.ts) and generateActorProfile             *)
(* (geminiService.ts).  D is the record of the sets the inputs of a        *)
(* request are drawn from.                                                 *)
(***************************************************************************)

\* generateActor up to the first await of generateActorProfile: the request
\* body, the approved URLs and files read from the store, the override lookup
\* and the first entries of the log
ReceiveRequest(D) ==
  /\ pc = "idle"
  /\ \E name \in D.actorNames, urls \in D.userUrlLists, files \in D.userFileLists :
       /\ req' = [name |-> name, trustedUrls |-> urls, trustedFiles |-> files]
       /\ trustedCsvData' = LookupOverride(registry, name)
       /\ log' = [EmptyLog EXCEPT !.approvedSources = urls, !.trustedFiles = files]
  /\ pc' = "pre_mitre"
  /\ UNCHANGED <<procVars, mitreInfo, researchNotes, researchGroundedUrls,
                 allGroundedUrls, attempt, lastTruncatedText, parsedData, aliasMap, rejected,
                 calls, ret, nvd>>
  /\ UNCHANGED sideVars

hasTrustedContext == req.trustedUrls # <<>> \/ req.trustedFiles # <<>>

\* the fetch outcomes a call of fetchMitreData can meet: one dummy outcome when
\* the cache answers
FetchOutcomes(D, cache) ==
  IF NeedsFetch(cache, now) THEN D.fetchOutcomes ELSE {NoFetch}

\* PRE-GENERATION: getMitreActorInfo, addStep('pre_mitre'), the research call
PreMitre(D) ==
  /\ pc = "pre_mitre"
  /\ \E o \in FetchOutcomes(D, mitreCache) :
       LET cache == FetchMitreData(mitreCache, now, o)
           info == GetMitreActorInfo(Intrusions(cache), req.name)
       IN /\ mitreCache' = cache
          /\ mitreInfo' = info
          /\ log' = [AddStep(log, "pre_mitre") EXCEPT
                       !.approvedSources =
                          IF info.mitreUrl # NoUrl THEN Append(@, info.mitreUrl) ELSE @]
  /\ calls' = Append(calls, "research")
  /\ pc' = "pass1"
  /\ UNCHANGED <<registry, now, lastRequestTime, actors, req, trustedCsvData,
                 researchNotes, researchGroundedUrls, allGroundedUrls, attempt,
                 lastTruncatedText, parsedData, aliasMap, rejected, ret, nvd>>
  /\ UNCHANGED sideVars

\* the request rejects: generateActorProfile throws
Throw == /\ pc' = "thrown"
         /\ ret' = [kind |-> "error", profile |-> NoData, log |-> EmptyLog]

\* PASS 1: the research response; r.text is "" or "notes", r.kind = "throws"
\* when the call itself rejects (timeout, API error)
Pass1(D) ==
  /\ pc = "pass1"
  /\ \E r \in D.researchResponses :
       IF r.kind = "throws"
       THEN /\ Throw
            /\ UNCHANGED <<researchNotes, researchGroundedUrls, allGroundedUrls, log,
                           calls, attempt>>
       ELSE /\ researchNotes' = r.text
            /\ researchGroundedUrls' = r.grounded
            /\ allGroundedUrls' = r.grounded
            /\ log' = AddStep(log, "pass1_research")
            /\ calls' = Append(calls, "structure_32768")
            /\ attempt' = 1
            /\ pc' = "pass2"
            /\ UNCHANGED ret
  /\ UNCHANGED <<procVars, req, trustedCsvData, mitreInfo, lastTruncatedText,
                 parsedData, aliasMap, rejected, nvd>>
  /\ UNCHANGED sideVars

\* the statements after the retry loop, once parsing produced a record:
\* log.groundingUrls and addStep('pass2_structure')
Parsed(data) ==
  /\ parsedData' = data
  /\ log' = [AddStep(log, "pass2_structure") EXCEPT
               !.groundingUrls =
                  FilterSeq(allGroundedUrls', {u \in Range(allGroundedUrls') : ~isEphemeralUrl(u)})]
  /\ pc' = "step1"
  /\ UNCHANGED ret

\* PASS 2: the response of structuring attempt 1 (32768 tokens) or 2 (65536).
\* r.kind: "throws" (the call rejects), "empty" (no text), "valid" (JSON.parse
\* gives r.data), "falsy" (JSON.parse gives null, 0, false or ""), "repairable"
\* (JSON.parse throws, tryRepairJson gives r.data), "garbage" (both throw, or
\* tryRepairJson gives a falsy value).
Pass2(D) ==
  /\ pc = "pass2"
  /\ \E r \in D.structureResponses :
       IF r.kind \in {"throws", "empty"}
       THEN /\ Throw
            /\ UNCHANGED <<allGroundedUrls, lastTruncatedText, parsedData, log, calls, attempt>>
       ELSE /\ allGroundedUrls' = researchGroundedUrls \o r.grounded
            /\ IF r.kind = "valid"
               THEN /\ Parsed(r.data)
                    /\ UNCHANGED <<lastTruncatedText, calls, attempt>>
               ELSE IF r.kind = "falsy"
               THEN \* break with parsedData = null
                    IF lastTruncatedText
                    THEN /\ calls' = Append(calls, "completion")
                         /\ pc' = "completion"
                         /\ UNCHANGED <<lastTruncatedText, parsedData, log, attempt, ret>>
                    ELSE /\ Throw
                         /\ UNCHANGED <<lastTruncatedText, parsedData, log, calls, attempt>>
               ELSE \* JSON.parse throws
                    /\ lastTruncatedText' = TRUE
                    /\ IF attempt = 1
                       THEN /\ attempt' = 2
                            /\ calls' = Append(calls, "structure_65536")
                            /\ pc' = "pass2"
                            /\ UNCHANGED <<parsedData, log, ret>>
                       ELSE IF r.kind = "repairable"
                       THEN /\ Parsed(r.data)
                            /\ calls' = Append(calls, "repair")
                            /\ UNCHANGED attempt
                       ELSE /\ calls' = Append(Append(calls, "repair"), "completion")
                            /\ pc' = "completion"
                            /\ UNCHANGED <<parsedData, log, attempt, ret>>
  /\ UNCHANGED <<procVars, req, trustedCsvData, mitreInfo, researchNotes,
                 researchGroundedUrls, aliasMap, rejected, nvd>>
  /\ UNCHANGED sideVars

\* the completion fallback: r.kind is "throws", "empty", "valid", "falsy" or
\* "garbage" (JSON.parse of the completed text throws)
Completion(D) ==
  /\ pc = "completion"
  /\ UNCHANGED <<procVars, req, trustedCsvData, mitreInfo, researchNotes,
                 researchGroundedUrls, allGroundedUrls, attempt, lastTruncatedText,
                 aliasMap, rejected, calls, nvd>>
  /\ \E r \in D.completionResponses :
       IF r.kind = "valid"
       THEN Parsed(r.data)
       ELSE /\ Throw
            /\ UNCHANGED <<parsedData, log>>
  /\ UNCHANGED sideVars

(***************************************************************************)
(* Post-generation validation pipeline                                     *)
(***************************************************************************)
RECURSIVE FirstWithId(_, _)
\* parsedData.cves.find(aiCve => aiCve.id === id), as a sequence of at most one
FirstWithId(cves, id) ==
  IF cves = <<>> THEN <<>>
  ELSE IF Head(cves).id = id THEN <<Head(cves)>> ELSE FirstWithId(Tail(cves), id)

DefaultDescription == "Vulnerability confirmed via Trusted Intelligence CSV."

\* the override CVE mapping that keeps the model's entries and appends the
\* override entries the model did not list
OverrideCvesMerged(trustedCves, aiCves) ==
  aiCves \o [i \in 1..Len(trustedCves) |->
               Cve(trustedCves[i].id, DefaultDescription, "HIGH",
                   trustedCves[i].verificationReference)]

\* trustedCsvData.cves.map(...): the CVE list of Step 1
OverrideCves(trustedCves, aiCves) ==
  [i \in 1..Len(trustedCves) |->
     LET aiFound == FirstWithId(aiCves, trustedCves[i].id)
     IN Cve(trustedCves[i].id,
            IF aiFound # <<>> /\ aiFound[1].description # ""
              THEN aiFound[1].description ELSE DefaultDescription,
            IF aiFound # <<>> /\ aiFound[1].severity # ""
              THEN aiFound[1].severity ELSE "HIGH",
            trustedCves[i].verificationReference)]

\* the forbidden-alias filter of Step 1
RemoveForbidden(aliases, forbiddenAliases) ==
  IF forbiddenAliases = <<>> THEN aliases
  ELSE LET forbiddenSet == {ToLowerCase(a) : a \in Range(forbiddenAliases)}
       IN FilterSeq(aliases, {a \in Range(aliases) : ToLowerCase(a) \notin forbiddenSet})

RECURSIVE Reverse(_)
Reverse(s) == IF s = <<>> THEN <<>> ELSE Reverse(Tail(s)) \o <<Head(s)>>

RECURSIVE PushMissing(_, _)
\* for (const src of more) if (!list.some(s => s.url === src.url)) list.push(src)
PushMissing(list, more) ==
  IF more = <<>> THEN list
  ELSE PushMissing(IF Head(more) \in Range(list) THEN list ELSE Append(list, Head(more)),
                   Tail(more))

\* Step 1: Trusted CSV data overrides
Step1 ==
  /\ pc = "step1"
  /\ IF trustedCsvData.present
     THEN LET t == trustedCsvData
              merged == IF t.hasAliases
                        THEN MergeAliases(parsedData.aliases, t.aliases, <<>>, parsedData.name)
                        ELSE parsedData.aliases
          IN /\ parsedData' = [parsedData EXCEPT
                  !.cves = OverrideCves(t.cves, parsedData.cves),
                  !.first_seen = IF t.first_seen # "" THEN t.first_seen ELSE @,
                  !.aliases = RemoveForbidden(merged, t.forbiddenAliases)]
             /\ log' = [AddStep(log, "step1_csv") EXCEPT
                  !.approvedSources = IF t.hasSources THEN PushMissing(@, t.sources) ELSE @]
             /\ pc' = "step2"
             /\ UNCHANGED ret
     ELSE IF hasTrustedContext
     THEN IF NullSource \in Range(parsedData.sources)
          THEN /\ Throw   \* parsedData.sources.map(s => s.url) on a null element
               /\ UNCHANGED <<parsedData, log>>
          ELSE LET existingUrls == Range(parsedData.sources)
                   fresh == FilterSeq(req.trustedUrls,
                                      {u \in Range(req.trustedUrls) : u \notin existingUrls})
               IN /\ parsedData' = [parsedData EXCEPT !.sources = Reverse(fresh) \o @]
                  /\ log' = AddStep(log, "step1_csv")
                  /\ pc' = "step2"
                  /\ UNCHANGED ret
     ELSE /\ log' = AddStep(log, "step1_csv")
          /\ pc' = "step2"
          /\ UNCHANGED <<parsedData, ret>>
  /\ UNCHANGED <<procVars, req, trustedCsvData, mitreInfo, researchNotes,
                 researchGroundedUrls, allGroundedUrls, attempt, lastTruncatedText,
                 aliasMap, rejected, calls, nvd>>
  /\ UNCHANGED sideVars

\* the registry year replacing the label whenever the registry has one
MitreFirstSeenAlways(t, info, current) ==
  IF info.firstSeen # "" THEN info.firstSeen ELSE current

\* Step 2: if (!trustedCsvData?.first_seen && mitreInfo.firstSeen)
MitreFirstSeen(t, info, current) ==
  IF t.first_seen = "" /\ info.firstSeen # "" THEN info.firstSeen ELSE current

RECURSIVE FetchRuns(_, _)
\* the fetch outcomes validateAliases can meet: one for getAllMitreAliasMap and
\* one per alias; only the outcomes of calls that go to the network vary
FetchRuns(outs, n) ==
  IF n = 0 THEN {<<>>} ELSE {<<o>> \o rest : o \in outs, rest \in FetchRuns(outs, n - 1)}

AliasFetchRuns(D, nAliases) ==
  IF NeedsFetch(mitreCache, now) THEN FetchRuns(D.fetchOutcomes, nAliases + 1)
  ELSE {[i \in 1..(nAliases + 1) |-> NoFetch]}

\* parsedData.aliases of the no-MITRE branch of Step 2
FinalAliasesNoMitre(validAliases, name) ==
  FilterSeq(validAliases, {a \in Range(validAliases) :
                             ToLowerCase(a) # ToLowerCase(name) /\ NonBlank(a)})

\* Step 2: MITRE ATT&CK enrichment + alias cross-validation
Step2(D) ==
  /\ pc = "step2"
  /\ UNCHANGED <<registry, now, lastRequestTime, actors, req, trustedCsvData, mitreInfo,
                 researchNotes, researchGroundedUrls, allGroundedUrls, attempt,
                 lastTruncatedText, calls, nvd>>
  /\ \E outs \in AliasFetchRuns(D, Len(parsedData.aliases)) :
       LET t == trustedCsvData
           known == IF mitreInfo.found THEN mitreInfo.aliases \o t.aliases ELSE t.aliases
           v == ValidateAliases(req.name, parsedData.aliases, known, mitreCache, now, outs)
       IN /\ mitreCache' = v.cache
          /\ rejected' = v.rejectedAliases
          /\ aliasMap' = v.aliasMap
          /\ IF mitreInfo.found
             THEN IF AssembleThrows(parsedData.sources)
                  THEN /\ Throw
                       /\ UNCHANGED <<parsedData, log>>
                  ELSE /\ parsedData' = [parsedData EXCEPT
                            !.aliases = MergeAliases(v.validAliases, t.aliases,
                                                     mitreInfo.aliases, parsedData.name),
                            !.first_seen = MitreFirstSeen(t, mitreInfo, @),
                            !.sources = AssembleVerifiedSources(allGroundedUrls, @,
                                            t.sources, mitreInfo.mitreUrl)]
                       /\ log' = AddStep(log, "step2_mitre")
                       /\ pc' = "step2_5"
                       /\ UNCHANGED ret
             ELSE LET aliases == FinalAliasesNoMitre(v.validAliases, parsedData.name)
                  IN IF allGroundedUrls # <<>>
                     THEN IF AssembleThrows(parsedData.sources)
                          THEN /\ Throw
                               /\ UNCHANGED <<parsedData, log>>
                          ELSE /\ parsedData' = [parsedData EXCEPT
                                    !.aliases = aliases,
                                    !.sources = AssembleVerifiedSources(allGroundedUrls, @,
                                                    t.sources, NoUrl)]
                               /\ log' = AddStep(log, "step2_mitre")
                               /\ pc' = "step2_5"
                               /\ UNCHANGED ret
                     ELSE IF t.hasSources /\ NullSource \in Range(parsedData.sources)
                     THEN /\ Throw
                          /\ UNCHANGED <<parsedData, log>>
                     ELSE /\ parsedData' = [parsedData EXCEPT
                               !.aliases = aliases,
                               !.sources =
                                  IF t.hasSources
                                  THEN FilterSeq(t.sources, {u \in Range(t.sources) :
                                                               u \notin Range(@)}) \o @
                                  ELSE @]
                          /\ log' = AddStep(log, "step2_mitre")
                          /\ pc' = "step2_5"
                          /\ UNCHANGED ret
  /\ UNCHANGED sideVars

\* Step 2.5 running for every non-empty list
RunsNvdAlways(t, cves) == cves # <<>>

\* the condition of Step 2.5: !trustedCsvData && parsedData.cves && parsedData.cves.length > 0
RunsNvd(t, cves) == ~t.present /\ cves # <<>>

\* the number of authority calls validateCveBatch issues for a candidate list
Submitted(cves) == Cardinality({j \in 1..Len(cves) : IsSubmitted(cves, j)})

\* Step 2.5: CVE validation via NVD, skipped when the override supplied the list
Step2_5 ==
  /\ pc = "step2_5"
  /\ IF RunsNvd(trustedCsvData, parsedData.cves)
     THEN \E outcomes \in NvdRuns(parsedData.cves, 1) :
            LET starts == BatchStarts(Submitted(parsedData.cves), now, lastRequestTime)
                end == IF starts = <<>> THEN now ELSE starts[Len(starts)]
            IN /\ parsedData' = [parsedData EXCEPT !.cves = ValidateCveBatch(@, outcomes)]
               /\ calls' = calls \o [i \in 1..Len(starts) |-> "nvd"]
               /\ nvd' = [nvd EXCEPT
                             !.starts = @ \o starts,
                             !.run = [cves |-> parsedData.cves, outcomes |-> outcomes,
                                      validated |-> ValidateCveBatch(parsedData.cves, outcomes),
                                      removed |-> RemovedFrom(parsedData.cves, outcomes, 1)]]
               /\ now' = end
               /\ lastRequestTime' = IF starts = <<>> THEN lastRequestTime ELSE end
     ELSE UNCHANGED <<parsedData, calls, nvd, now, lastRequestTime>>
  /\ log' = AddStep(log, "step2_5_nvd")
  /\ pc' = "step3"
  /\ UNCHANGED <<registry, mitreCache, actors, req, trustedCsvData, mitreInfo, researchNotes,
                 researchGroundedUrls, allGroundedUrls, attempt, lastTruncatedText,
                 aliasMap, rejected, ret>>
  /\ UNCHANGED sideVars

\* Step 3: URL validation; when validateUrls throws the sources are kept as-is
Step3 ==
  /\ pc = "step3"
  /\ IF ValidateUrlsThrows(parsedData.sources)
     THEN UNCHANGED <<parsedData, urlRun>>
     ELSE \E probes \in ProbeRuns(PreFilter(parsedData.sources)) :
            /\ parsedData' = [parsedData EXCEPT !.sources = ValidateUrls(@, probes)]
            /\ urlRun' = [ran |-> TRUE, sources |-> parsedData.sources, probes |-> probes,
                          validated |-> ValidateUrls(parsedData.sources, probes)]
  /\ log' = AddStep(log, "step3_urls")
  /\ pc' = "step4"
  /\ UNCHANGED <<procVars, req, trustedCsvData, mitreInfo, researchNotes,
                 researchGroundedUrls, allGroundedUrls, attempt, lastTruncatedText,
                 aliasMap, rejected, calls, ret, nvd>>
  /\ UNCHANGED <<mitre, gen, repair, refreshed>>

\* `https://malpedia.caad.fkie.fraunhofer.de/actor/${actorName.toLowerCase()...}`
MalpediaUrl(actorName) == Url("stable", <<"malpedia">> \o actorName.toks, 0)

\* `https://www.google.com/search?q=${encodeURIComponent(actorName)}+threat+intelligence`
GoogleUrl(actorName) == Url("gquery", <<"search">> \o actorName.toks, 0)

\* the floor of Step 4
MIN_SOURCES == 3

\* the fallbacks of Step 4 appended to a list below the floor
WithFallbacks(sources, actorName) ==
  LET existingUrls == Range(sources)
  IN sources
       \o (IF MalpediaUrl(actorName) \notin existingUrls THEN <<MalpediaUrl(actorName)>> ELSE <<>>)
       \o (IF GoogleUrl(actorName) \notin existingUrls THEN <<GoogleUrl(actorName)>> ELSE <<>>)

\* Step 4: Ensure minimum sources, the first_seen default and the return
Step4 ==
  /\ pc = "step4"
  /\ IF Len(parsedData.sources) < MIN_SOURCES /\ NullSource \in Range(parsedData.sources)
     THEN /\ Throw    \* parsedData.sources.map(s => s.url) on a null element
          /\ UNCHANGED <<parsedData, log>>
     ELSE LET final == [parsedData EXCEPT
                          !.sources = IF Len(@) < MIN_SOURCES
                                      THEN WithFallbacks(@, req.name) ELSE @,
                          !.first_seen = IF @ = "" THEN "Unknown" ELSE @]
              flog == AddStep(log, "step4_sources")
          IN /\ parsedData' = final
             /\ log' = flog
             /\ ret' = [kind |-> "ok", profile |-> final, log |-> flog]
             /\ pc' = "returned"
  /\ UNCHANGED <<procVars, req, trustedCsvData, mitreInfo, researchNotes,
                 researchGroundedUrls, allGroundedUrls, attempt, lastTruncatedText,
                 aliasMap, rejected, calls, nvd>>
  /\ UNCHANGED sideVars

\* dbModel.getActorByName(name): the positions of the records with that name.
\* A record is [id, name, rev]: rev counts the writes of the record.
GetActorByName(store, name) == {i \in 1..Len(store) : store[i].name = name}

\* the controller persisting whatever generateActorProfile ended with
UpsertAlways(store, result, name) ==
  Append(store, [id |-> Len(store) + 1, name |-> result.profile.name, rev |-> 1])

\* generateActor after the await of generateActorProfile: the table after the
\* upsert when a record came back, the table untouched when the call threw
Upsert(store, result, name) ==
  IF result.kind # "ok" THEN store
  ELSE LET existing == GetActorByName(store, name)
       IN IF existing # {}
          THEN LET i == CHOOSE k \in existing : \A j \in existing : k <= j
               IN [store EXCEPT ![i].name = result.profile.name, ![i].rev = @ + 1]
          ELSE Append(store, [id |-> Len(store) + 1, name |-> result.profile.name, rev |-> 1])

\* generateActor: res.json({ actor, generationLog }) or next(error)
Respond ==
  /\ pc \in {"returned", "thrown"}
  /\ actors' = Upsert(actors, ret, req.name)
  /\ pc' = IF ret.kind = "ok" THEN "responded" ELSE "failed"
  /\ UNCHANGED <<registry, mitreCache, now, lastRequestTime, req, trustedCsvData,
                 mitreInfo, researchNotes, researchGroundedUrls, allGroundedUrls, attempt,
                 lastTruncatedText, parsedData, aliasMap, rejected, log, calls, ret, nvd>>
  /\ UNCHANGED sideVars

\* refreshActorSection(actorName, 'ALIASES') for a response that carries the
\* alias list aiAliases: o is the outcome of the fetch of getMitreActorInfo, outs
\* the outcomes of the fetches of validateAliases.  The result is
\* [aliases, rejected, cache]: parsed.aliases, the rejectedAliases that the
\* function drops, and the reference cache it leaves.
RefreshActorSection(actorName, aiAliases, reg, cache, clock, o, outs) ==
  LET c0 == FetchMitreData(cache, clock, o)
      info == GetMitreActorInfo(Intrusions(c0), actorName)
      csv == LookupOverride(reg, actorName)
      v == ValidateAliases(actorName, aiAliases, info.aliases, c0, clock, outs)
  IN [aliases |-> MergeAliases(v.validAliases, csv.aliases, info.aliases, actorName),
      rejected |-> v.rejectedAliases,
      cache |-> v.cache]

\* refreshSection: the ALIASES refresh of a stored actor; the controller writes
\* { ...existing, ...partialData } over the record and answers partialData
RefreshSection(D) ==
  /\ pc = "responded"
  /\ \E r \in {x \in D.structureResponses : x.kind = "valid"},
        o \in FetchOutcomes(D, mitreCache) :
       \E outs \in (IF NeedsFetch(FetchMitreData(mitreCache, now, o), now)
                     THEN FetchRuns(D.fetchOutcomes, Len(r.data.aliases) + 1)
                     ELSE {[i \in 1..(Len(r.data.aliases) + 1) |-> NoFetch]}) :
         LET partialData == RefreshActorSection(req.name, r.data.aliases, registry,
                                                mitreCache, now, o, outs)
             existing == GetActorByName(actors, ret.profile.name)
             id == CHOOSE k \in existing : \A j \in existing : k <= j
         IN /\ refreshed' = [kind |-> "ok", aliases |-> partialData.aliases,
                              rejected |-> partialData.rejected]
            /\ mitreCache' = partialData.cache
            /\ actors' = [actors EXCEPT ![id].rev = @ + 1]
  /\ pc' = "refreshed"
  /\ UNCHANGED <<registry, now, lastRequestTime, req, trustedCsvData, mitreInfo,
                 researchNotes, researchGroundedUrls, allGroundedUrls, attempt,
                 lastTruncatedText, parsedData, aliasMap, rejected, log, calls, ret, nvd>>
  /\ UNCHANGED <<mitre, urlRun, gen, repair>>

(***************************************************************************)
(* Rate-Limited Verifier (nvdService.ts): the requests that are inside     *)
(* validateCveBatch at the same time.  A caller is [pc, batch, left,       *)
(* wakeAt, last]: where it stands in rateLimitedFetch, the number of calls *)
(* its batch issues, the number still to issue, the time its timer is set  *)
(* for and the outcome of its last call.                                   *)
(***************************************************************************)
\* generateActorProfile (Step 2.5) and refreshActorSection (CVES)
Callers == {"generate", "refresh"}

Caller(batch) ==
  [pc |-> IF batch > 0 THEN "ready" ELSE "done", batch |-> batch, left |-> batch,
   wakeAt |-> 0, last |-> "none"]

\* the last validateCveBatch of a generation: its argument, the outcomes of its
\* calls and its removed list
NoRun == [cves |-> <<>>, outcomes |-> <<>>, validated |-> <<>>, removed |-> <<>>]

NoCallers == [callers |-> [c \in Callers |-> Caller(0)], starts |-> <<>>, run |-> NoRun]

\* fetchMitreData calls: a caller is "idle" or "fetching" (between the fetch and
\* its end); fetches counts the outbound fetches, lookups the calls that ended;
\* last is the call that ended last: how it was served, the outcome of its
\* fetch, the cache before and after it, and the list it returned
NoLookup == [kind |-> "none", outcome |-> NoFetch, before |-> EmptyCache,
             after |-> EmptyCache, returned |-> <<>>]

NoLookups == [callers |-> [c \in Callers |-> "idle"], fetches |-> 0, lookups |-> 0,
              last |-> NoLookup]

\* no validateUrls call has returned yet
NoUrlRun == [ran |-> FALSE, sources |-> <<>>, probes |-> <<>>, validated |-> <<>>]

\* the generateActor requests that are in flight at the same time
MaxRequests == 2

Requests == 1..MaxRequests

\* a generateActor request that has not started
NoSave == [pc |-> "idle", name |-> NoOwner, profileName |-> NoOwner, existing |-> {}]
NoSaves == [r \in Requests |-> NoSave]

(***************************************************************************)
(* tryRepairJson (geminiService.ts) on the text of a structuring call.     *)
(*                                                                         *)
(* A text is modelled by its JSON tokens: the six punctuation marks, "str" *)
(* for a complete string literal and "open" for a string literal whose     *)
(* closing quote is missing, which can only be the last token.  A string   *)
(* is [s, n], a label and a number; no string holds a quote, brace,        *)
(* bracket or comma, and white space between tokens is not modelled, so    *)
(* the \s* of the patterns and trimEnd have nothing to match.  A JSON      *)
(* value is [type, s, n, items] with type "str", "arr", "obj", "pair" (a   *)
(* member of an object: s is the key, items the one value) or "undefined". *)
(***************************************************************************)
Str(s, n) == [type |-> "str", s |-> s, n |-> n, items |-> <<>>]
Arr(items) == [type |-> "arr", s |-> "", n |-> 0, items |-> items]
Obj(pairs) == [type |-> "obj", s |-> "", n |-> 0, items |-> pairs]
Pair(key, value) == [type |-> "pair", s |-> key, n |-> 0, items |-> <<value>>]
Undefined == [type |-> "undefined", s |-> "", n |-> 0, items |-> <<>>]

Tok(t, s, n) == [t |-> t, s |-> s, n |-> n]
Punct(t) == Tok(t, "", 0)

RECURSIVE Stringify(_), StringifyList(_)
\* the text of a value, as the model writes it
Stringify(v) ==
  CASE v.type = "str" -> <<Tok("str", v.s, v.n)>>
    [] v.type = "pair" -> <<Tok("str", v.s, 0), Punct(":")>> \o Stringify(v.items[1])
    [] v.type = "arr" -> <<Punct("[")>> \o StringifyList(v.items) \o <<Punct("]")>>
    [] v.type = "obj" -> <<Punct("{")>> \o StringifyList(v.items) \o <<Punct("}")>>

StringifyList(items) ==
  IF items = <<>> THEN <<>>
  ELSE IF Len(items) = 1 THEN Stringify(items[1])
  ELSE Stringify(items[1]) \o <<Punct(",")>> \o StringifyList(Tail(items))

\* a text cut inside the string literal that is its i-th token
Truncate(text, i) ==
  Append(SubSeq(text, 1, i - 1), Tok("open", text[i].s, text[i].n))

ParseFail == [ok |-> FALSE, value |-> Undefined, rest |-> <<>>]
ParseOk(value, rest) == [ok |-> TRUE, value |-> value, rest |-> rest]

RECURSIVE ParseValue(_), ParseElements(_, _), ParseMembers(_, _)
\* one JSON value at the head of ts: [ok, value, rest]
ParseValue(ts) ==
  IF ts = <<>> THEN ParseFail
  ELSE IF ts[1].t = "str" THEN ParseOk(Str(ts[1].s, ts[1].n), Tail(ts))
  ELSE IF ts[1].t = "[" THEN
    IF Len(ts) >= 2 /\ ts[2].t = "]" THEN ParseOk(Arr(<<>>), SubSeq(ts, 3, Len(ts)))
    ELSE ParseElements(Tail(ts), <<>>)
  ELSE IF ts[1].t = "{" THEN
    IF Len(ts) >= 2 /\ ts[2].t = "}" THEN ParseOk(Obj(<<>>), SubSeq(ts, 3, Len(ts)))
    ELSE ParseMembers(Tail(ts), <<>>)
  ELSE ParseFail

\* the elements of an array from its next element on, up to its "]"
ParseElements(ts, acc) ==
  LET v == ParseValue(ts)
  IN IF ~v.ok \/ v.rest = <<>> THEN ParseFail
     ELSE IF v.rest[1].t = "]" THEN ParseOk(Arr(Append(acc, v.value)), Tail(v.rest))
     ELSE IF v.rest[1].t = "," THEN ParseElements(Tail(v.rest), Append(acc, v.value))
     ELSE ParseFail

\* the members of an object from its next key on, up to its "}"
ParseMembers(ts, acc) ==
  IF Len(ts) < 2 \/ ts[1].t # "str" \/ ts[2].t # ":" THEN ParseFail
  ELSE LET v == ParseValue(SubSeq(ts, 3, Len(ts)))
           member == Pair(ts[1].s, v.value)
       IN IF ~v.ok \/ v.rest = <<>> THEN ParseFail
          ELSE IF v.rest[1].t = "}" THEN ParseOk(Obj(Append(acc, member)), Tail(v.rest))
          ELSE IF v.rest[1].t = "," THEN ParseMembers(Tail(v.rest), Append(acc, member))
          ELSE ParseFail

\* JSON.parse(text): [ok, value]; ok is FALSE when it throws
JSONParse(text) ==
  LET v == ParseValue(text)
  IN IF v.ok /\ v.rest = <<>> THEN [ok |-> TRUE, value |-> v.value]
     ELSE [ok |-> FALSE, value |-> Undefined]

\* text.replace(/...$/, ''): kinds are the token kinds the pattern ends the text with
ReplaceTrailing(text, kinds) ==
  LET m == Len(kinds)
  IN IF Len(text) >= m /\ \A q \in 1..m : text[Len(text) - m + q].t = kinds[q]
     THEN SubSeq(text, 1, Len(text) - m)
     ELSE text

\* Strategy 2: remove trailing incomplete key-value pairs
Strategy2(text) ==
  LET r1 == ReplaceTrailing(text, <<",", "str", ":", "open">>)
      r2 == ReplaceTrailing(r1, <<",", "str", ":">>)
      r3 == ReplaceTrailing(r2, <<",", "open">>)
  IN ReplaceTrailing(r3, <<",">>)

\* lastIndexOf: the largest index of the set, 0 when it is empty
LastIndexOf(indices) ==
  IF indices = {} THEN 0 ELSE CHOOSE i \in indices : \A j \in indices : j <= i

\* Strategy 3: remove the last incomplete object of an array of objects
Strategy3(text) ==
  LET lastCompleteObject ==
        LastIndexOf({i \in 1..(Len(text) - 1) : text[i].t = "}" /\ text[i + 1].t = ","})
      lastOpenBrace == LastIndexOf({i \in 1..Len(text) : text[i].t = "{"})
  IN IF lastOpenBrace > lastCompleteObject /\ lastCompleteObject > 0
     THEN ReplaceTrailing(SubSeq(text, 1, lastCompleteObject), <<",">>)
     ELSE text

\* Strategy 4: with an odd number of quotes, one quote is appended to the text
Strategy4(text) ==
  LET quoteCount == 2 * Cardinality({i \in 1..Len(text) : text[i].t = "str"})
                      + Cardinality({i \in 1..Len(text) : text[i].t = "open"})
      last == text[Len(text)]
  IN IF quoteCount % 2 = 0 THEN text
     ELSE IF last.t = "open" THEN [text EXCEPT ![Len(text)] = Tok("str", last.s, last.n)]
     ELSE Append(text, Tok("open", "", 0))

\* the number of tokens of one kind
Count(text, t) == Cardinality({i \in 1..Len(text) : text[i].t = t})

\* Strategy 5: every missing "]" is appended, then every missing "}"
Strategy5(text) ==
  LET openBrackets == Count(text, "[") - Count(text, "]")
      openBraces == Count(text, "{") - Count(text, "}")
  IN text \o [i \in 1..(IF openBrackets > 0 THEN openBrackets ELSE 0) |-> Punct("]")]
          \o [i \in 1..(IF openBraces > 0 THEN openBraces ELSE 0) |-> Punct("}")]

\* text.replace(/,\s*X/g, 'X'): every comma that stands before closer goes
StripCommaBefore(text, closer) ==
  LET keep == {i \in 1..Len(text) :
                 ~(text[i].t = "," /\ i < Len(text) /\ text[i + 1].t = closer)}
  IN [j \in 1..Cardinality(keep) |->
        text[CHOOSE i \in keep : Cardinality({k \in keep : k < i}) = j - 1]]

\* Strategy 6: remove trailing commas before closing brackets and braces
Strategy6(text) == StripCommaBefore(StripCommaBefore(text, "]"), "}")

\* tryRepairJson(text): [ok, value]; ok is FALSE when the final JSON.parse throws
TryRepairJson(text) ==
  IF JSONParse(text).ok THEN JSONParse(text)
  ELSE JSONParse(Strategy6(Strategy5(Strategy4(Strategy3(Strategy2(text))))))

\* obj[key]: the value of the member with the key, undefined without one
Member(obj, key) ==
  LET hits == {i \in 1..Len(obj.items) : obj.items[i].s = key}
  IN IF obj.type # "obj" \/ hits = {} THEN Undefined
     ELSE obj.items[CHOOSE i \in hits : \A j \in hits : j <= i].items[1]

\* no tryRepairJson call has been made
NoRepair == [pc |-> "none", ideal |-> Undefined, cut |-> 0, text |-> <<>>, ok |-> FALSE,
             value |-> Undefined]


NoRefresh == [kind |-> "none", aliases |-> <<>>, rejected |-> <<>>]

pipelineVars == <<registry, mitreCache, actors, pc, req, trustedCsvData, mitreInfo,
                  researchNotes, researchGroundedUrls, allGroundedUrls, attempt,
                  lastTruncatedText, parsedData, aliasMap, rejected, log, calls, ret>>

\* rateLimitedFetch from its entry to its first await: the wait is computed from
\* lastRequestTime as it is now; with no wait the call starts in the same turn
NvdEnter(c) ==
  /\ nvd.callers[c].pc = "ready"
  /\ LET wait == WaitTime(now, lastRequestTime)
     IN IF wait = 0
        THEN /\ lastRequestTime' = now
             /\ nvd' = [nvd EXCEPT !.callers[c].pc = "fetching", !.starts = Append(@, now)]
        ELSE /\ nvd' = [nvd EXCEPT !.callers[c].pc = "sleeping",
                                   !.callers[c].wakeAt = now + wait]
             /\ UNCHANGED lastRequestTime
  /\ UNCHANGED <<pipelineVars, now>>
  /\ UNCHANGED sideVars

\* the timer of the sleep fires (never early): lastRequestTime = Date.now() and
\* the call starts
NvdWake(c) ==
  /\ nvd.callers[c].pc = "sleeping"
  /\ now >= nvd.callers[c].wakeAt
  /\ lastRequestTime' = now
  /\ nvd' = [nvd EXCEPT !.callers[c].pc = "fetching", !.starts = Append(@, now)]
  /\ UNCHANGED <<pipelineVars, now>>
  /\ UNCHANGED sideVars

\* the call ends with any outcome and the loop of validateCveBatch moves on
NvdReturn(c) ==
  /\ nvd.callers[c].pc = "fetching"
  /\ \E o \in {x.kind : x \in NvdOutcomes} :
       nvd' = [nvd EXCEPT !.callers[c].last = o,
                          !.callers[c].left = @ - 1,
                          !.callers[c].pc = IF nvd.callers[c].left > 1 THEN "ready" ELSE "done"]
  /\ UNCHANGED <<pipelineVars, now, lastRequestTime>>
  /\ UNCHANGED sideVars

\* the steps the clock advances by, and the time the model follows the clock for
TickSteps == {3250, 6500}

MaxElapsed == 13000

MaxBatch == 2

(***************************************************************************)
(* Input values                                                            *)
(***************************************************************************)
APT29 == Nm(<<"apt", "29">>, TRUE, FALSE, "")
APT28 == Nm(<<"apt", "28">>, TRUE, FALSE, "")
CozyBear == Nm(<<"cozy", "bear">>, TRUE, TRUE, "")
FancyBear == Nm(<<"fancy", "bear">>, TRUE, TRUE, "")
DarkHalo == Nm(<<"dark", "halo">>, TRUE, TRUE, "")
MidnightBlizzard == Nm(<<"midnight", "blizzard">>, TRUE, TRUE, "")
Dragonfly == Nm(<<"dragonfly">>, TRUE, FALSE, "")
EnergeticBear == Nm(<<"energetic", "bear">>, TRUE, TRUE, "")
Apt41Overlap == Nm(<<"apt", "41">>, TRUE, TRUE, "overlap")
Mimikatz == Nm(<<"mimikatz">>, TRUE, FALSE, "")
Blank == Nm(<<>>, FALSE, TRUE, "")

MitrePage(n) == Url("stable", <<"attack", n>>, 1)
Vendor(n) == Url("stable", <<"vendor", n>>, 0)
Plain(n, slashes) == Url("plain", <<"site", n>>, slashes)
Redirect(n) == Url("ephemeral", <<"vertexaisearch", n>>, 0)

\* an enterprise-attack bundle: APT28, APT29 and Dragonfly, and one tool
Bundle ==
  [intrusions |->
     <<Intrusion(APT28, <<APT28, FancyBear>>, MitrePage("G0007"), "2004"),
       Intrusion(APT29, <<APT29, CozyBear, DarkHalo>>, MitrePage("G0016"), "2008"),
       Intrusion(Dragonfly, <<Dragonfly, EnergeticBear>>, NoUrl, "")>>,
   malware |-> {Mimikatz}]

\* a bundle in which a later intrusion set repeats an alias of APT29
BundleShared ==
  [intrusions |->
     <<Intrusion(APT29, <<APT29, CozyBear>>, MitrePage("G0016"), "2008"),
       Intrusion(APT28, <<APT28, FancyBear, CozyBear>>, MitrePage("G0007"), "")>>,
   malware |-> {}]

FetchFailed == NoFetch
Fetched(b) == [ok |-> TRUE, partial |-> FALSE, bundle |-> b]
FetchedPartly(b) == [ok |-> FALSE, partial |-> TRUE, bundle |-> b]

\* Date.now() when the model starts: two days after the epoch of the model
StartTime == 172800000

LoadedCache(b, ts) == FetchMitreData(EmptyCache, ts, Fetched(b))

Research(kind, text, grounded) == [kind |-> kind, text |-> text, grounded |-> grounded]
Structured(kind, data, grounded) == [kind |-> kind, data |-> data, grounded |-> grounded]

\* the responses of a structuring or completion call that carry no record
Barren(kinds) == {Structured(k, NoData, <<>>) : k \in kinds}

\* Date.now() advances
Tick ==
  /\ \E d \in TickSteps : now + d <= StartTime + MaxElapsed /\ now' = now + d
  /\ UNCHANGED <<pipelineVars, lastRequestTime, nvd>>
  /\ UNCHANGED sideVars

(***************************************************************************)
(* Specifications                                                          *)
(***************************************************************************)
\* the state of the process when a request arrives: D gives the registries,
\* caches, stores and last-call times it can be in
Init(D) ==
  /\ registry \in D.registries
  /\ mitreCache \in D.caches
  /\ actors \in D.stores
  /\ lastRequestTime \in D.lastRequestTimes
  /\ nvd \in D.nvds
  /\ now = StartTime
  /\ pc = "idle"
  /\ req = NoReq
  /\ trustedCsvData = NoOverride
  /\ mitreInfo = NoMitreInfo
  /\ researchNotes = ""
  /\ researchGroundedUrls = <<>>
  /\ allGroundedUrls = <<>>
  /\ attempt = 0
  /\ lastTruncatedText = FALSE
  /\ parsedData = NoData
  /\ aliasMap = <<>>
  /\ rejected = <<>>
  /\ log = EmptyLog
  /\ calls = <<>>
  /\ ret = NoRet
  /\ mitre = NoLookups
  /\ urlRun = NoUrlRun
  /\ gen = NoSaves
  /\ repair = NoRepair
  /\ refreshed = NoRefresh

(***************************************************************************)
(* Spec: requests whose vulnerability list and structured output vary      *)
(***************************************************************************)
apt29 == Nm(<<"apt", "29">>, FALSE, FALSE, "")

\* an override entry for "apt29" with two hand-verified CVEs
OverrideCvesOnly ==
  Override(<<TrustedCve(CveId(1), "advisory-1"), TrustedCve(CveId(2), "advisory-2")>>,
           FALSE, <<>>, <<>>, "", FALSE, <<>>)

\* an override entry for "apt29" that also gives the earliest-activity label
OverrideFirstSeen ==
  Override(<<TrustedCve(CveId(1), "advisory-1")>>, FALSE, <<>>, <<>>, "2014", FALSE, <<>>)

\* the model proposes CVE 3, unknown to the override, and CVE 1; it omits CVE 2
ProposedCves == <<Cve(CveId(3), "unknown", "LOW", ""), Cve(CveId(1), "known", "CRITICAL", "")>>

\* an identifier with three digits after the second dash
BadCveId(num) == [prefix |-> "CVE", yearDigits |-> 4, seqDigits |-> 3, num |-> num]

\* twelve candidates: the first and the eleventh are well-formed, the others
\* are malformed; the last two stand after the entries validateCveBatch examines
LongCves ==
  [i \in 1..(NVD_BATCH_LIMIT + 2) |->
     IF i = 1 THEN Cve(CveId(3), "unknown", "LOW", "")
     ELSE IF i = NVD_BATCH_LIMIT + 1 THEN Cve(CveId(i), "late", "MEDIUM", "")
     ELSE Cve(BadCveId(i), "malformed", "HIGH", "vendor-note")]

StoredActor(name) == [id |-> 1, name |-> name, rev |-> 1]

DomCves ==
  [registries |-> {<<>>, <<[key |-> apt29, entry |-> OverrideCvesOnly]>>,
                   <<[key |-> apt29, entry |-> OverrideFirstSeen]>>},
   caches |-> {EmptyCache, LoadedCache(Bundle, StartTime - 1000)},
   stores |-> {<<>>, <<StoredActor(APT29)>>},
   lastRequestTimes |-> {0, StartTime - 1000},
   nvds |-> {NoCallers},
   actorNames |-> {APT29, MidnightBlizzard, Dragonfly},
   userUrlLists |-> {<<>>},
   userFileLists |-> {<<>>},
   fetchOutcomes |-> {FetchFailed, Fetched(Bundle)},
   researchResponses |-> {Research("throws", "", <<>>), Research("text", "", <<>>),
                          Research("text", "notes", <<>>)},
   structureResponses |->
     Barren({"throws", "empty", "falsy", "garbage"})
       \cup {Structured(k, ParsedData(APT29, "", <<>>, c, <<>>), <<>>) :
               k \in {"valid", "repairable"}, c \in {<<>>, ProposedCves}}
       \cup {Structured("valid", ParsedData(APT29, "", <<>>, LongCves, <<>>), <<>>),
             Structured("valid", ParsedData(APT29, "2010", <<>>, <<>>, <<>>), <<>>)},
   completionResponses |->
     Barren({"throws", "empty", "falsy", "garbage"})
       \cup {Structured("valid", ParsedData(APT29, "", <<>>, ProposedCves, <<>>), <<>>)}]

Next ==
  \/ ReceiveRequest(DomCves)
  \/ PreMitre(DomCves)
  \/ Pass1(DomCves)
  \/ Pass2(DomCves)
  \/ Completion(DomCves)
  \/ Step1
  \/ Step2(DomCves)
  \/ Step2_5
  \/ Step3
  \/ Step4
  \/ Respond

Spec == Init(DomCves) /\ [][Next]_vars

\* the identifiers of a CVE list, in order
Ids(cves) == [i \in 1..Len(cves) |-> cves[i].id]

\* C1: whenever generateActorProfile returns a record for a name that matches
\* an Override Registry key, the identifiers of the record's vulnerability list
\* are the identifiers of the override entry, in the same order, whatever the
\* model proposed.
C1_OverrideCvesExact ==
  (ret.kind = "ok" /\ LookupOverride(registry, req.name).present)
    => Ids(ret.profile.cves) = Ids(LookupOverride(registry, req.name).cves)

\* a record returned under the override after the model proposed CVE 3 and CVE 1
\* (the description of CVE 1 is the model's) and omitted CVE 2
C1_Witness ==
  /\ ret.kind = "ok"
  /\ LookupOverride(registry, req.name).present
  /\ Len(ret.profile.cves) = 2
  /\ ret.profile.cves[1].description = "known"
  /\ ret.profile.cves[2].description = DefaultDescription

\* C8: when the completion call, reached after both structuring outputs and the
\* mechanical repair failed to parse, yields no record either, the request
\* throws: no profile and no log are returned; and a request that threw never
\* changes the actor table.
C8_ParseFailureIsTerminal ==
  [][/\ (pc = "completion" /\ "repair" \in Range(calls) /\ ~parsedData'.present)
          => (pc' = "thrown" /\ ret' = [kind |-> "error", profile |-> NoData, log |-> EmptyLog])
     /\ (ret.kind = "error" => actors' = actors)]_vars

\* the controller answered a request whose four parse tiers all failed
C8_Witness ==
  /\ pc = "failed"
  /\ calls = <<"research", "structure_32768", "structure_65536", "repair", "completion">>
  /\ ret.kind = "error"

\* C9: once the research call or a structuring call has returned no usable
\* text, the request is in a terminal error and returns no record.
C9_NoTextIsTerminal ==
  (pc \notin {"idle", "pre_mitre", "pass1"} /\ researchNotes = "") => ret.kind = "error"

\* a record returned by a request whose research call gave no text
C9_Witness == ret.kind = "ok" /\ researchNotes = "" /\ pc = "responded"

(***************************************************************************)
(* SpecAliases: requests whose alternate names vary                        *)
(***************************************************************************)
\* an override entry for "apt29": it asserts two alternate names, one that the
\* catalog lists under APT28 and one that carries a relationship qualifier, and
\* it forbids a name that the catalog lists under APT29
OverrideAliases ==
  Override(<<TrustedCve(CveId(1), "advisory-1")>>, TRUE, <<FancyBear, Apt41Overlap>>,
           <<DarkHalo>>, "", FALSE, <<>>)

AliasLists ==
  {<<>>, <<CozyBear, FancyBear>>, <<DarkHalo, Apt41Overlap, Mimikatz>>,
   <<APT29, Blank, MidnightBlizzard>>}

DomAliases ==
  [registries |-> {<<>>, <<[key |-> apt29, entry |-> OverrideAliases]>>},
   caches |-> {EmptyCache, LoadedCache(Bundle, StartTime - 1000),
               LoadedCache(BundleShared, StartTime - CACHE_TTL)},
   stores |-> {<<>>},
   lastRequestTimes |-> {0},
   nvds |-> {NoCallers},
   actorNames |-> {APT29, CozyBear, MidnightBlizzard},
   userUrlLists |-> {<<>>},
   userFileLists |-> {<<>>},
   fetchOutcomes |-> {FetchFailed, Fetched(Bundle)},
   researchResponses |-> {Research("text", "notes", <<>>)},
   structureResponses |->
     Barren({"garbage"})
       \cup {Structured("valid", ParsedData(APT29, "", a, <<>>, <<>>), <<>>) : a \in AliasLists},
   completionResponses |->
     Barren({"garbage"})
       \cup {Structured("valid", ParsedData(APT29, "", <<CozyBear, FancyBear>>, <<>>, <<>>), <<>>)}]

NextAliases ==
  \/ ReceiveRequest(DomAliases)
  \/ PreMitre(DomAliases)
  \/ Pass1(DomAliases)
  \/ Pass2(DomAliases)
  \/ Completion(DomAliases)
  \/ Step1
  \/ Step2(DomAliases)
  \/ Step2_5
  \/ Step3
  \/ Step4
  \/ Respond
  \/ RefreshSection(DomAliases)

SpecAliases == Init(DomAliases) /\ [][NextAliases]_vars

\* the normalized names of the profiled entity: the requested name, the names
\* of the catalog entry the request matched and the override alternates
ProfiledNames ==
  {normalize(req.name)}
    \cup {normalize(a) : a \in Range(mitreInfo.aliases)}
    \cup {normalize(a) : a \in Range(LookupOverride(registry, req.name).aliases)}

\* C2: in every returned record, no name of the final alternate-name list is
\* attributed by the name-to-owner map to an entity other than the profiled one.
C2_NoForeignAlias ==
  ret.kind = "ok" =>
    \A a \in Range(ret.profile.aliases) :
       LET owner == AliasMapOwner(aliasMap, normalize(a))
       IN owner = <<>> \/ normalize(owner[1]) \in ProfiledNames

\* C3: in every record returned under an override entry that lists forbidden
\* alternate names, no name of the final alternate-name list equals a forbidden
\* name, case-insensitively.
C3_NoForbiddenAlias ==
  (ret.kind = "ok" /\ LookupOverride(registry, req.name).forbiddenAliases # <<>>) =>
    \A a \in Range(ret.profile.aliases) :
       ToLowerCase(a) \notin
         {ToLowerCase(f) : f \in Range(LookupOverride(registry, req.name).forbiddenAliases)}

\* C10: in every returned record, no name of the final alternate-name list
\* carries the qualifier "(overlap)", "(related)" or "(possible)".
C10_NoQualifiedAlias ==
  ret.kind = "ok" => \A a \in Range(ret.profile.aliases) : ~HasRelationshipQualifier(a)

(***************************************************************************)
(* SpecSources: requests whose sources vary                                *)
(***************************************************************************)
\* an override entry for "apt29" that supplies a source
OverrideSources ==
  Override(<<TrustedCve(CveId(1), "advisory-1")>>, FALSE, <<>>, <<>>, "", TRUE,
           <<Vendor("advisory")>>)

\* the sources arrays the model returns: one with a redirect URL and a null
\* element, one with a single unlisted URL, one with three entries, one that
\* holds the search URL Step 4 would construct, one with two URLs that differ
\* by a trailing slash, and an empty one
SourceLists ==
  {<<Redirect("m"), NullSource, Plain("blog", 0)>>,
   <<Plain("blog", 0), Plain("blog", 1), Vendor("report")>>,
   <<Plain("blog", 0)>>,
   <<Vendor("report"), Vendor("advisory"), Plain("blog", 1)>>,
   <<GoogleUrl(APT29), Plain("blog", 0)>>,
   <<>>}

DomSources ==
  [registries |-> {<<>>, <<[key |-> apt29, entry |-> OverrideSources]>>},
   caches |-> {EmptyCache, LoadedCache(Bundle, StartTime - 1000)},
   stores |-> {<<>>},
   lastRequestTimes |-> {0},
   nvds |-> {NoCallers},
   actorNames |-> {APT29, MidnightBlizzard},
   userUrlLists |-> {<<>>, <<Plain("approved", 0)>>},
   userFileLists |-> {<<>>},
   fetchOutcomes |-> {FetchFailed},
   researchResponses |-> {Research("text", "notes", <<>>),
                          Research("text", "notes", <<Redirect("g"), Plain("news", 0)>>)},
   structureResponses |->
     Barren({"garbage"})
       \cup {Structured("valid", ParsedData(APT29, "", <<>>, <<>>, l), <<>>) : l \in SourceLists}
       \cup {Structured("valid", ParsedData(APT29, "", <<>>, <<>>, <<Vendor("report")>>),
                         <<Plain("news", 0)>>)},
   completionResponses |->
     Barren({"garbage"})
       \cup {Structured("valid", ParsedData(APT29, "", <<>>, <<>>, <<Plain("blog", 0)>>), <<>>)}]

NextSources ==
  \/ ReceiveRequest(DomSources)
  \/ PreMitre(DomSources)
  \/ Pass1(DomSources)
  \/ Pass2(DomSources)
  \/ Completion(DomSources)
  \/ Step1
  \/ Step2(DomSources)
  \/ Step2_5
  \/ Step3
  \/ Step4
  \/ Respond

SpecSources == Init(DomSources) /\ [][NextSources]_vars

\* C4: in every returned record, no source URL matches an ephemeral pattern,
\* on every path through the pipeline.
C4_NoEphemeralSource ==
  ret.kind = "ok" => \A u \in Range(ret.profile.sources) : ~isEphemeralUrl(u)

\* the request had a source candidate that the state still shows: a
\* user-approved URL, a grounding URL, a catalog page or an override source
HadCandidates ==
  \/ req.trustedUrls # <<>>
  \/ allGroundedUrls # <<>>
  \/ mitreInfo.mitreUrl # NoUrl
  \/ LookupOverride(registry, req.name).sources # <<>>

\* C5: whenever a source candidate existed before reconciliation, the source
\* list of the returned record has at least 3 entries.
C5_SourceFloor ==
  (ret.kind = "ok" /\ HadCandidates) => Len(ret.profile.sources) >= MIN_SOURCES

(***************************************************************************)
(* SpecRate: the requests that are inside validateCveBatch, and the clock  *)
(***************************************************************************)
DomRate ==
  [registries |-> {<<>>},
   caches |-> {EmptyCache},
   stores |-> {<<>>},
   lastRequestTimes |-> {0, StartTime - 1000},
   nvds |-> {[callers |-> [c \in Callers |-> Caller(IF c = "generate" THEN a ELSE b)],
              starts |-> <<>>, run |-> NoRun] : a \in 1..MaxBatch, b \in 0..MaxBatch}]

NextRate ==
  \/ \E c \in Callers : NvdEnter(c)
  \/ \E c \in Callers : NvdWake(c)
  \/ \E c \in Callers : NvdReturn(c)
  \/ Tick

SpecRate == Init(DomRate) /\ [][NextRate]_vars

\* consecutive authority calls start at least MIN_REQUEST_INTERVAL apart
Spaced(starts) ==
  \A i \in 1..(Len(starts) - 1) : starts[i + 1] - starts[i] >= MIN_REQUEST_INTERVAL

\* C6: under any interleaving of the requests of one process, no two authority
\* calls start less than MIN_REQUEST_INTERVAL apart.
C6_SpacedProcessWide == Spaced(nvd.starts)

\* C7: while a single validateCveBatch runs with no other request in the
\* process, any two consecutive authority calls start at least
\* MIN_REQUEST_INTERVAL apart, whatever the outcomes of the calls.
C7_SpacedWithinBatch ==
  nvd.callers["refresh"].batch = 0 => Spaced(nvd.starts)

\* a batch of two calls that ran alone to its end: the limiter delayed a call
\* and the last call ended in a network error or a timeout
C7_Witness ==
  /\ nvd.callers["refresh"].batch = 0
  /\ nvd.callers["generate"].pc = "done"
  /\ nvd.callers["generate"].wakeAt > 0
  /\ nvd.callers["generate"].last = "network_error"
  /\ Len(nvd.starts) = 2

\* C11: in every returned record, no two source entries have the same URL
\* once one trailing slash is stripped.
C11_SourcesUniqueModuloSlash ==
  ret.kind = "ok" =>
    \A i, j \in 1..Len(ret.profile.sources) :
       i # j => StripSlash(ret.profile.sources[i]) # StripSlash(ret.profile.sources[j])

\* C12: every vulnerability identifier of a returned record matches the
\* pattern CVE-<4 digits>-<4 or more digits>.
C12_CveIdsWellFormed ==
  ret.kind = "ok" => \A c \in Range(ret.profile.cves) : MatchesCvePattern(c.id)

\* C13: every vulnerability entry of a returned record has a non-empty
\* evidence reference.
C13_CveReferenceNonEmpty ==
  ret.kind = "ok" => \A c \in Range(ret.profile.cves) : c.verificationReference # ""

\* C14: every vulnerability entry of a returned record has a severity in
\* {CRITICAL, HIGH, MEDIUM, LOW}.
C14_SeverityInFixedSet ==
  ret.kind = "ok" =>
    \A c \in Range(ret.profile.cves) : c.severity \in {"CRITICAL", "HIGH", "MEDIUM", "LOW"}

\* the entries of the last validateCveBatch call whose authority call failed
FailedCalls ==
  {i \in 1..Len(nvd.run.cves) :
     IsSubmitted(nvd.run.cves, i) /\ nvd.run.outcomes[i].kind \in {"http_error", "network_error"}}

\* C15: an entry among the first 10 well-formed candidates whose authority
\* call fails is in the validated output unchanged and is not in the rejection
\* list; every other entry keeps its own outcome: an entry the authority knows
\* is validated, an entry it does not know is rejected, and every candidate is
\* either validated or rejected.
C15_FailOpenPerEntry ==
  /\ \A i \in FailedCalls :
        /\ nvd.run.cves[i] \in Range(nvd.run.validated)
        /\ nvd.run.cves[i].id \notin Range(nvd.run.removed)
  /\ \A j \in 1..Len(nvd.run.cves) :
        IsSubmitted(nvd.run.cves, j) =>
          /\ nvd.run.outcomes[j].kind = "found" =>
               /\ nvd.run.cves[j].id \in Range(Ids(nvd.run.validated))
               /\ nvd.run.cves[j].id \notin Range(nvd.run.removed)
          /\ nvd.run.outcomes[j].kind = "not_found" =>
               /\ nvd.run.cves[j].id \notin Range(Ids(nvd.run.validated))
               /\ nvd.run.cves[j].id \in Range(nvd.run.removed)
  /\ Len(nvd.run.validated) + Len(nvd.run.removed) = Len(nvd.run.cves)

\* one entry's call fails while the other entry is rejected by the authority
C15_Witness ==
  /\ pc = "step3"
  /\ FailedCalls # {}
  /\ \E j \in 1..Len(nvd.run.cves) : nvd.run.outcomes[j].kind = "not_found"
  /\ \E i \in FailedCalls : nvd.run.cves[i] \in Range(parsedData.cves)

\* C16: from the start of a generation whose vulnerability list comes from the
\* Override Registry until it returns, no call to the vulnerability authority
\* is issued.
C16_NoNvdCallUnderOverride ==
  trustedCsvData.present => "nvd" \notin Range(calls) /\ nvd.starts = <<>>

\* a generation that returned the override's vulnerability list, Step 2.5 passed
C16_Witness ==
  /\ pc = "responded"
  /\ trustedCsvData.present
  /\ ret.profile.cves # <<>>
  /\ "step2_5_nvd" \in Range(ret.log.steps)

\* C17: after Step 2 of a generation without an override, every non-ephemeral
\* user-approved URL is in the source list: the whitelist of stable patterns
\* gates model-output URLs only.
C17_UserUrlsPassTheGate ==
  (pc = "step2_5" /\ ~trustedCsvData.present) =>
    \A i \in 1..Len(req.trustedUrls) :
       ~isEphemeralUrl(req.trustedUrls[i]) =>
          \E j \in 1..Len(parsedData.sources) :
             parsedData.sources[j] # NullSource
               /\ StripSlash(parsedData.sources[j]) = StripSlash(req.trustedUrls[i])

\* C18: in every record returned under an override entry that supplies
\* alternate names, no override alternate name was rejected by the alias
\* cross-validation, and each one other than the canonical name and the
\* forbidden names is in the final alternate-name list.
C18_OverrideAliasesAreOwn ==
  (ret.kind = "ok" /\ trustedCsvData.present /\ trustedCsvData.hasAliases) =>
    \A a \in Range(trustedCsvData.aliases) :
       /\ \A k \in 1..Len(rejected) : ToLowerCase(rejected[k].alias) # ToLowerCase(a)
       /\ (/\ ToLowerCase(a) # ToLowerCase(ret.profile.name)
           /\ ToLowerCase(a) \notin
                {ToLowerCase(f) : f \in Range(trustedCsvData.forbiddenAliases)})
            => ToLowerCase(a) \in {ToLowerCase(b) : b \in Range(ret.profile.aliases)}

\* the names an override entry forbids, lower-cased
ForbiddenOf(reg, actorName) ==
  {ToLowerCase(f) : f \in Range(LookupOverride(reg, actorName).forbiddenAliases)}

\* C27: the alias list that refreshActorSection(name, 'ALIASES') returns, and
\* that the controller persists, holds no name the override entry of the actor
\* forbids, and no override alternate name is among the names its
\* cross-validation rejected, as in a full generation under the same entry.
C27_RefreshMatchesGeneration ==
  refreshed.kind = "ok" =>
    /\ \A a \in Range(refreshed.aliases) : ToLowerCase(a) \notin ForbiddenOf(registry, req.name)
    /\ \A a \in Range(LookupOverride(registry, req.name).aliases) :
         \A k \in 1..Len(refreshed.rejected) :
            ToLowerCase(refreshed.rejected[k].alias) # ToLowerCase(a)

\* the stage names of generateActorProfile, in pipeline order
PipelineSteps ==
  <<"pre_mitre", "pass1_research", "pass2_structure", "step1_csv", "step2_mitre",
    "step2_5_nvd", "step3_urls", "step4_sources">>

DuplicateFree(list) == \A i, j \in 1..Len(list) : i # j => list[i] # list[j]

\* C20: in every returned audit log, each of the three evidence lists
\* (grounding URLs, approved sources, ingested file names) is duplicate-free.
C20_EvidenceListsDuplicateFree ==
  ret.kind = "ok" =>
    /\ DuplicateFree(ret.log.groundingUrls)
    /\ DuplicateFree(ret.log.approvedSources)
    /\ DuplicateFree(ret.log.trustedFiles)

\* the probe outcome the last validateUrls call met for the URL u
ProbeOf(u) ==
  LET filtered == PreFilter(urlRun.sources)
  IN urlRun.probes[CHOOSE i \in 1..Len(filtered) : filtered[i] = u]

\* whether the last validateUrls call met one outcome per URL
LivenessFixed ==
  LET filtered == PreFilter(urlRun.sources)
  IN \A i, j \in 1..Len(filtered) :
        filtered[i] = filtered[j] => urlRun.probes[i] = urlRun.probes[j]

Survivors ==
  LET filtered == PreFilter(urlRun.sources)
  IN {i \in 1..Len(filtered) :
        \/ ~NeedsProbe(filtered[i])
        \/ urlRun.probes[i].head = "ok"
        \/ urlRun.probes[i].head = "fail" /\ urlRun.probes[i].get = "ok"}

\* C26: in validateUrls a URL that is neither whitelisted nor a search URL
\* survives exactly when its HEAD probe returns a status below 400 or its HEAD
\* probe fails and its GET fallback returns a status below 400, whatever the
\* probes of the other URLs give; the result is the list of the survivors in
\* input order.
C26_ProbesIndependent ==
  urlRun.ran =>
    LET filtered == PreFilter(urlRun.sources)
    IN /\ Len(urlRun.validated) = Cardinality(Survivors)
       /\ \A i \in Survivors :
             urlRun.validated[Cardinality({k \in Survivors : k <= i})] = filtered[i]

\* a call in which one URL survived through the GET fallback while both probes
\* of a sibling failed
C26_Witness ==
  /\ urlRun.ran
  /\ \E i, j \in 1..Len(urlRun.probes) :
        /\ urlRun.probes[i] = [head |-> "fail", get |-> "ok"]
        /\ urlRun.probes[j] = [head |-> "fail", get |-> "fail"]
        /\ PreFilter(urlRun.sources)[i] \in Range(urlRun.validated)
        /\ PreFilter(urlRun.sources)[j] \notin Range(urlRun.validated)

\* the model calls and the mechanical repair of one generation, in the order
\* the retry ladder allows them
Ladder == <<"research", "structure_32768", "structure_65536", "repair", "completion">>

\* C24: the model calls of a generation and its mechanical repair occur in
\* ladder order, each rung once and none skipped: research, structuring at
\* 32768, structuring at 65536, repair of the second output, completion.
C24_CallLadder ==
  LET issued == FilterSeq(calls, Range(calls) \ {"nvd"})
  IN Len(issued) <= Len(Ladder) /\ \A i \in 1..Len(issued) : issued[i] = Ladder[i]

\* C25: validateCveBatch issues one authority call per well-formed entry among
\* the first NVD_BATCH_LIMIT candidates and none for a later entry, so at most
\* NVD_BATCH_LIMIT calls; the entries after that limit end the validated list
\* unchanged and in their order; and every candidate is in exactly one of the
\* validated list and the rejection list.
C25_BatchLimit ==
  LET r == nvd.run
      n == Len(r.cves)
      late == IF n > NVD_BATCH_LIMIT THEN n - NVD_BATCH_LIMIT ELSE 0
      early == {i \in 1..n : i <= NVD_BATCH_LIMIT /\ MatchesCvePattern(r.cves[i].id)}
  IN /\ Len(FilterSeq(calls, {"nvd"})) = Cardinality(early)
     /\ Len(FilterSeq(calls, {"nvd"})) <= NVD_BATCH_LIMIT
     /\ Len(r.validated) >= late
     /\ \A k \in 1..late :
           r.validated[Len(r.validated) - late + k] = r.cves[NVD_BATCH_LIMIT + k]
     /\ Len(r.validated) + Len(r.removed) = n
     /\ \A i \in 1..n :
           (r.cves[i].id \in Range(Ids(r.validated))) # (r.cves[i].id \in Range(r.removed))

\* a call whose candidate list has a well-formed entry after the limit
C25_Witness ==
  /\ pc = "step3"
  /\ Len(nvd.run.cves) > NVD_BATCH_LIMIT
  /\ MatchesCvePattern(nvd.run.cves[NVD_BATCH_LIMIT + 1].id)
  /\ "nvd" \in Range(calls)
  /\ nvd.run.removed # <<>>

\* whether the override of the request gives the earliest-activity label, and
\* whether the registry match gives a first-documented year
OverrideHasLabel == trustedCsvData.present /\ trustedCsvData.first_seen # ""
RegistryHasYear == mitreInfo.found /\ mitreInfo.firstSeen # ""

\* C29: the earliest-activity label of a returned record is the override's
\* label when the override gives one; otherwise the registry's year when the
\* entity matched the registry and the year exists; otherwise the value the
\* model gave, which no reconciliation step changes, 'Unknown' standing for an
\* empty value; it is never empty.
C29_FirstSeenPrecedence ==
  /\ [](ret.kind = "ok" =>
          /\ ret.profile.first_seen # ""
          /\ OverrideHasLabel => ret.profile.first_seen = trustedCsvData.first_seen
          /\ (~OverrideHasLabel /\ RegistryHasYear) =>
                ret.profile.first_seen = mitreInfo.firstSeen)
  /\ [][(~OverrideHasLabel /\ ~RegistryHasYear) =>
          /\ (pc \in {"step1", "step2", "step2_5", "step3"} /\ pc' # "thrown") =>
                parsedData'.first_seen = parsedData.first_seen
          /\ (pc = "step4" /\ pc' = "returned") =>
                ret'.profile.first_seen =
                   IF parsedData.first_seen = "" THEN "Unknown" ELSE parsedData.first_seen]_vars

\* a record whose label is the registry's year although the model gave another
\* value, returned for a request without an override label
C29_Witness ==
  /\ ret.kind = "ok"
  /\ ~OverrideHasLabel
  /\ RegistryHasYear
  /\ ret.profile.first_seen = mitreInfo.firstSeen
  /\ "step2_mitre" \in Range(ret.log.steps)

(***************************************************************************)
(* SpecCache: concurrent calls of fetchMitreData while the clock runs      *)
(***************************************************************************)
\* the number of fetchMitreData calls the model follows
MaxLookups == 4

\* fetchMitreData from its entry to its first await: a fresh cache is returned
\* at once, otherwise the fetch is issued
MitreEnter(c) ==
  /\ mitre.callers[c] = "idle"
  /\ mitre.lookups + Cardinality({d \in Callers : mitre.callers[d] = "fetching"}) < MaxLookups
  /\ IF NeedsFetch(mitreCache, now)
     THEN mitre' = [mitre EXCEPT !.callers[c] = "fetching", !.fetches = @ + 1]
     ELSE mitre' = [mitre EXCEPT
                      !.lookups = @ + 1,
                      !.last = [kind |-> "served", outcome |-> NoFetch, before |-> mitreCache,
                                after |-> mitreCache, returned |-> Intrusions(mitreCache)]]
  /\ UNCHANGED <<pipelineVars, now, lastRequestTime, nvd, urlRun, gen, repair, refreshed>>

\* the fetch ends with outcome o: the rest of the try block, or the catch
MitreReturn(c, D) ==
  /\ mitre.callers[c] = "fetching"
  /\ \E o \in D.fetchOutcomes :
       LET cache == Refresh(mitreCache, now, o)
       IN /\ mitreCache' = cache
          /\ mitre' = [mitre EXCEPT
                         !.callers[c] = "idle",
                         !.lookups = @ + 1,
                         !.last = [kind |-> "fetched", outcome |-> o, before |-> mitreCache,
                                   after |-> cache, returned |-> Intrusions(cache)]]
  /\ UNCHANGED <<registry, actors, pc, req, trustedCsvData, mitreInfo, researchNotes,
                 researchGroundedUrls, allGroundedUrls, attempt, lastTruncatedText,
                 parsedData, aliasMap, rejected, log, calls, ret, now, lastRequestTime, nvd,
                 urlRun, gen, repair, refreshed>>

\* an empty cache, a fresh one, and one that expires within the time followed
DomCache ==
  [registries |-> {<<>>},
   caches |-> {EmptyCache, LoadedCache(Bundle, StartTime - 1000),
               LoadedCache(BundleShared, StartTime - CACHE_TTL + 6500)},
   stores |-> {<<>>},
   lastRequestTimes |-> {0},
   nvds |-> {NoCallers},
   fetchOutcomes |-> {FetchFailed, Fetched(Bundle), FetchedPartly(BundleShared)}]

NextCache ==
  \/ \E c \in Callers : MitreEnter(c)
  \/ \E c \in Callers : MitreReturn(c, DomCache)
  \/ Tick

SpecCache == Init(DomCache) /\ [][NextCache]_vars

\* C21: when the refresh attempt of a fetchMitreData call fails, the call
\* returns the list cached before it ([] when there was none) and the cached
\* list, the cached name set and the cache timestamp are as before the attempt.
C21_FailedRefreshKeepsCache ==
  (mitre.last.kind = "fetched" /\ ~mitre.last.outcome.ok) =>
    /\ mitre.last.after = mitre.last.before
    /\ mitre.last.returned = Intrusions(mitre.last.before)

\* C30: a fetch is issued only when no list is cached or CACHE_TTL has elapsed
\* since the cache timestamp; a call that starts on a younger cache ends at
\* once with the cached list and no fetch, whatever calls are in flight; and
\* the cache timestamp changes only when a refresh succeeds, to the time of
\* that success.
C30_FetchOnlyWhenExpired ==
  [][/\ mitre'.fetches > mitre.fetches =>
          ~mitreCache.loaded \/ now - mitreCache.ts >= CACHE_TTL
     /\ (mitre' # mitre /\ mitreCache.loaded /\ now - mitreCache.ts < CACHE_TTL
           /\ \A c \in Callers : mitre.callers[c] = "fetching" => mitre'.callers[c] = "fetching") =>
          /\ mitre'.callers = mitre.callers
          /\ mitre'.fetches = mitre.fetches
          /\ mitre'.last.kind = "served"
          /\ mitre'.last.returned = mitreCache.intrusions
          /\ mitreCache' = mitreCache
     /\ mitreCache'.ts # mitreCache.ts =>
          /\ mitre'.last.kind = "fetched"
          /\ mitre'.last.outcome.ok
          /\ mitreCache'.ts = now]_vars

\* a call served from the cache while another call's fetch is in flight, after
\* the cache went stale and was refreshed
C30_Witness ==
  /\ mitre.last.kind = "served"
  /\ mitre.fetches >= 2
  /\ \E c \in Callers : mitre.callers[c] = "fetching"
  /\ now > StartTime

(***************************************************************************)
(* SpecStore: generateActor requests that run at the same time.  Each      *)
(* await of the handler is a point where another request may run; the      *)
(* lookup by name and the write are separate statements on the pool.       *)
(***************************************************************************)
\* generateActor up to the call of generateActorProfile
GenerateEnter(r, D) ==
  /\ gen[r].pc = "idle"
  /\ \E name \in D.actorNames : gen' = [gen EXCEPT ![r] = [NoSave EXCEPT !.pc = "generating",
                                                                         !.name = name]]
  /\ UNCHANGED <<pipelineVars, now, lastRequestTime, nvd, mitre, urlRun, repair, refreshed>>

\* await generateActorProfile(name, ...) ends: with a profile that carries the
\* requested name, or with an exception that goes to next(error)
GenerateProfile(r) ==
  /\ gen[r].pc = "generating"
  /\ \E ok \in BOOLEAN :
       gen' = [gen EXCEPT ![r].pc = IF ok THEN "profiled" ELSE "failed",
                          ![r].profileName = IF ok THEN gen[r].name ELSE NoOwner]
  /\ UNCHANGED <<pipelineVars, now, lastRequestTime, nvd, mitre, urlRun, repair, refreshed>>

\* const existing = await dbModel.getActorByName(name): the id of the first
\* record with the name, none when no record has it
GenerateLookup(r) ==
  /\ gen[r].pc = "profiled"
  /\ LET hits == GetActorByName(actors, gen[r].name)
     IN gen' = [gen EXCEPT
                  ![r].pc = "looked",
                  ![r].existing =
                     IF hits = {} THEN {}
                     ELSE {actors[CHOOSE k \in hits : \A j \in hits : k <= j].id}]
  /\ UNCHANGED <<pipelineVars, now, lastRequestTime, nvd, mitre, urlRun, repair, refreshed>>

\* updateActor(id, actor): UPDATE threat_actors ... WHERE id = $1
UpdateActor(store, id, name) ==
  [i \in 1..Len(store) |->
     IF store[i].id = id THEN [store[i] EXCEPT !.name = name, !.rev = @ + 1] ELSE store[i]]

\* createActor(actor): INSERT INTO threat_actors; id is the primary key and
\* name carries no constraint.  The result is [ok, store].
CreateActor(store, id, name) ==
  IF \E i \in 1..Len(store) : store[i].id = id
  THEN [ok |-> FALSE, store |-> store]
  ELSE [ok |-> TRUE, store |-> Append(store, [id |-> id, name |-> name, rev |-> 1])]

\* the write of generateActor: update under the id found by the lookup, else
\* create under id Date.now().toString(); then res.json or next(error)
GenerateWrite(r) ==
  /\ gen[r].pc = "looked"
  /\ IF gen[r].existing # {}
     THEN /\ actors' = UpdateActor(actors, CHOOSE id \in gen[r].existing : TRUE,
                                   gen[r].profileName)
          /\ gen' = [gen EXCEPT ![r].pc = "done"]
     ELSE LET made == CreateActor(actors, now, gen[r].profileName)
          IN /\ actors' = made.store
             /\ gen' = [gen EXCEPT ![r].pc = IF made.ok THEN "done" ELSE "failed"]
  /\ UNCHANGED <<registry, mitreCache, pc, req, trustedCsvData, mitreInfo, researchNotes,
                 researchGroundedUrls, allGroundedUrls, attempt, lastTruncatedText,
                 parsedData, aliasMap, rejected, log, calls, ret, now, lastRequestTime, nvd,
                 mitre, urlRun, repair, refreshed>>

\* an empty table and one that already holds the actor
DomStore ==
  [registries |-> {<<>>},
   caches |-> {EmptyCache},
   stores |-> {<<>>, <<[id |-> StartTime - 1000, name |-> APT29, rev |-> 1]>>},
   lastRequestTimes |-> {0},
   nvds |-> {NoCallers},
   actorNames |-> {APT29, Dragonfly}]

NextStore ==
  \/ \E r \in Requests : GenerateEnter(r, DomStore)
  \/ \E r \in Requests : GenerateProfile(r)
  \/ \E r \in Requests : GenerateLookup(r)
  \/ \E r \in Requests : GenerateWrite(r)
  \/ Tick

SpecStore == Init(DomStore) /\ [][NextStore]_vars

\* C28: whatever the interleaving of generateActor requests, the table holds at
\* most one actor record for each name.
C28_OneRecordPerName ==
  \A i, j \in 1..Len(actors) : actors[i].name = actors[j].name => i = j

(***************************************************************************)
(* SpecRepair: tryRepairJson on structuring outputs that were cut inside a *)
(* string of the last element of the cves array                            *)
(***************************************************************************)
\* the largest cves array of an output
MaxCves == 3

\* an element of the cves array, with the members the schema requires
CveElement(i) ==
  Obj(<<Pair("id", Str("CVE", i)), Pair("description", Str("text", i)),
        Pair("severity", Str("HIGH", 0)), Pair("verificationReference", Str("reference", i))>>)

SourceElement(i) == Obj(<<Pair("title", Str("title", i)), Pair("url", Str("url", i))>>)

Description == Obj(<<Pair("summary", Str("summary", 0)), Pair("campaigns", Str("campaigns", 0)),
                     Pair("recent", Str("recent", 0))>>)

\* the complete outputs: n cves after the members before, the members after behind
Output(before, n, after) ==
  Obj(before \o <<Pair("cves", Arr([i \in 1..n |-> CveElement(i)]))>> \o after)

\* the members in the order of the schema, in alphabetical order, and with the
\* sources ahead of the cves
Outputs ==
  {Output(<<Pair("name", Str("APT29", 0)), Pair("first_seen", Str("2008", 0)),
            Pair("aliases", Arr(<<Str("Cozy Bear", 0)>>)), Pair("description", Description)>>,
          n, <<Pair("sources", Arr(<<SourceElement(1)>>))>>) : n \in 1..MaxCves}
  \cup
  {Output(<<Pair("aliases", Arr(<<Str("Cozy Bear", 0)>>))>>, n,
          <<Pair("description", Description), Pair("first_seen", Str("2008", 0)),
            Pair("name", Str("APT29", 0)), Pair("sources", Arr(<<SourceElement(1)>>))>>) :
     n \in 1..MaxCves}
  \cup
  {Output(<<Pair("name", Str("APT29", 0)),
            Pair("sources", Arr(<<SourceElement(1), SourceElement(2)>>))>>, n, <<>>) :
     n \in 1..MaxCves}

\* the position of the member cves in an output
CvesIndex(output) == CHOOSE c \in 1..Len(output.items) : output.items[c].s = "cves"

\* the members of an output that stand before its cves
MembersBefore(output) == SubSeq(output.items, 1, CvesIndex(output) - 1)

\* the elements of the cves array of an output
CvesOf(output) == output.items[CvesIndex(output)].items[1].items

\* the tokens of an output that lie inside a string of its last cves element
CutPoints(output) ==
  LET before == MembersBefore(output)
      elems == CvesOf(output)
      n == Len(elems)
      offset == 1 + Len(StringifyList(before)) + (IF before = <<>> THEN 0 ELSE 1) + 3
                  + Len(StringifyList(SubSeq(elems, 1, n - 1))) + (IF n > 1 THEN 1 ELSE 0)
      text == Stringify(output)
  IN {i \in (offset + 1)..(offset + Len(Stringify(elems[n]))) : text[i].t = "str"}

\* the structuring call at the larger budget returns a text cut at token i
StructureTruncated(D) ==
  /\ repair.pc = "none"
  /\ \E output \in D.outputs :
       \E i \in CutPoints(output) :
         repair' = [NoRepair EXCEPT !.pc = "truncated", !.ideal = output, !.cut = i,
                                    !.text = Truncate(Stringify(output), i)]
  /\ UNCHANGED <<pipelineVars, now, lastRequestTime, nvd, mitre, urlRun, gen, refreshed>>

\* the catch of the retry attempt: parsedData = tryRepairJson(text)
Repair ==
  /\ repair.pc = "truncated"
  /\ LET r == TryRepairJson(repair.text)
     IN repair' = [repair EXCEPT !.pc = "repaired", !.ok = r.ok, !.value = r.value]
  /\ UNCHANGED <<pipelineVars, now, lastRequestTime, nvd, mitre, urlRun, gen, refreshed>>

DomRepair ==
  [registries |-> {<<>>},
   caches |-> {EmptyCache},
   stores |-> {<<>>},
   lastRequestTimes |-> {0},
   nvds |-> {NoCallers},
   outputs |-> Outputs]

NextRepair ==
  \/ StructureTruncated(DomRepair)
  \/ Repair

SpecRepair == Init(DomRepair) /\ [][NextRepair]_vars

\* C23: for an output cut inside a string of the last element of its cves
\* array, tryRepairJson returns a record that parses, whose cves array holds
\* exactly the elements before the cut one, and in which every member that
\* was complete before the cut has its value.
C23_RepairTrimsLastElement ==
  repair.pc = "repaired" =>
    /\ repair.ok
    /\ Member(repair.value, "cves") =
         Arr(SubSeq(CvesOf(repair.ideal), 1, Len(CvesOf(repair.ideal)) - 1))
    /\ \A k \in 1..Len(MembersBefore(repair.ideal)) :
         Member(repair.value, MembersBefore(repair.ideal)[k].s)
           = MembersBefore(repair.ideal)[k].items[1]

====
